---- MODULE Spec2Model ----
(***************************************************************************)
(* A model of the cryptographic-identity core of RadixWalletKit:           *)
(*   - the factor-instance binding (HDFactorInstanceTransactionSigning),   *)
(*   - the network registry (RadixNetwork),                                *)
(*   - the entity-address codec (EntityAddress),                           *)
(*   - Secp256k1PublicKey and Ed25519PrivateKey construction and decoding, *)
(*   - Account construction and the secure-storage capability,             *)
(*   - HierarchicalDeterministicPrivateKey,                                *)
(*   - the CAP26 constants and the derivation-path codec,                  *)
(*   - Account with its accessors and ordering, and ThirdPartyDeposits,    *)
(*   - the PrivateKey union and the NetworkID conversions,                 *)
(*   - the borrows of the RefCell of an account's on-ledger settings.      *)
(* Each component has its own specification over the shared variables; a   *)
(* component's specification leaves the other components' variables at     *)
(* their initial value.                                                    *)
(***************************************************************************)
EXTENDS Integers, Sequences, FiniteSets, TLC

VARIABLES instance, bound, lookups, addr, call, key, hd, codec, account, ordering, cell

vars == <<instance, bound, lookups, addr, call, key, hd, codec, account, ordering, cell>>

(***************************************************************************)
(* Bounds of the model.                                                    *)
(***************************************************************************)
\* the largest path index drawn for a derivation path
MaxIndex == 1
\* the largest key number drawn for a public key of each curve
MaxKeyId == 1
\* the number of concurrent callers of the network registry
NumCallers == 2
\* the largest x coordinate number drawn for the bytes of a key
MaxX == 3
\* the largest entity index of an account
MaxEntityIndex == 1
\* the most writes an update closure makes
MaxClosureWrites == 2

(***************************************************************************)
(* Option and Result values.                                               *)
(***************************************************************************)
None == [tag |-> "None"]
Some(v) == [tag |-> "Some", value |-> v]
Ok(v) == [tag |-> "Ok", value |-> v]
Err(e) == [tag |-> "Err", error |-> e]
\* an abort of the process (panic!, assert!, todo!, unwrap on Err)
Panic == [tag |-> "Panic"]

(***************************************************************************)
(* NetworkID.                                                              *)
(***************************************************************************)
NetworkIDs ==
    {"Mainnet", "Stokenet", "Adapanet", "Kisharnet", "Nebunet", "Ansharnet",
     "Zabanet", "Enkinet", "Hammunet", "Nergalnet", "Mardunet", "Simulator"}

(***************************************************************************)
(* Derivation paths.                                                       *)
(***************************************************************************)
CAP26KeyKinds == {"TransactionSigning", "AuthenticationSigning", "MessageEncryption"}

\* the network ids the drawn paths use
PathNetworkIDs == {"Mainnet", "Stokenet"}

EntityPathValues ==
    [network_id : PathNetworkIDs, key_kind : CAP26KeyKinds, index : 0..MaxIndex]

AccountPaths == {[tag |-> "AccountPath", value |-> v] : v \in EntityPathValues}
IdentityPaths == {[tag |-> "IdentityPath", value |-> v] : v \in EntityPathValues}
CAP26Paths == AccountPaths \cup IdentityPaths
BIP44LikePaths == {[index |-> i] : i \in 0..MaxIndex}

DerivationPaths ==
    {[tag |-> "CAP26", value |-> p] : p \in CAP26Paths}
        \cup {[tag |-> "BIP44Like", value |-> p] : p \in BIP44LikePaths}

as_cap26(derivation_path) ==
    IF derivation_path.tag = "CAP26" THEN Some(derivation_path.value) ELSE None

as_account_path(p) == IF p.tag = "AccountPath" THEN Some(p) ELSE None
as_identity_path(p) == IF p.tag = "IdentityPath" THEN Some(p) ELSE None

is_transaction_signing(key_kind) == key_kind = "TransactionSigning"

\* the derivation path an entity path converts into
derivation_path_of(path) == [tag |-> "CAP26", value |-> path]

(***************************************************************************)
(* Public keys and factor instances.                                       *)
(***************************************************************************)
Curves == {"Ed25519", "Secp256k1"}
PublicKeys == [curve : Curves, id : 0..MaxKeyId]
FactorSourceIDs == {"fsA", "fsB"}

HierarchicalDeterministicPublicKey(public_key, derivation_path) ==
    [public_key |-> public_key, derivation_path |-> derivation_path]

HierarchicalDeterministicFactorInstance(factor_source_id, hd_public_key) ==
    [factor_source_id |-> factor_source_id, public_key |-> hd_public_key]

\* the raw instances drawn as inputs of the binding
RawInstances ==
    {HierarchicalDeterministicFactorInstance(
        f, HierarchicalDeterministicPublicKey(k, d)) :
            f \in FactorSourceIDs, k \in {pk \in PublicKeys : pk.id = 0},
            d \in DerivationPaths}

\* the two path kinds E of HDFactorInstanceTransactionSigning<E>
PathKinds == {"AccountPath", "IdentityPath"}

\* the closures handed to try_from by the two constructors
extract(E, p) ==
    IF E = "AccountPath" THEN as_account_path(p) ELSE as_identity_path(p)

and_then(opt, E) == IF opt.tag = "Some" THEN extract(E, opt.value) ELSE None

try_from_KeyKindUnchecked(hd_factor_instance, E) ==
    LET path == and_then(as_cap26(hd_factor_instance.public_key.derivation_path), E)
    IN  IF path.tag = "Some"
        THEN Ok([E |-> E,
                 factor_source_id |-> hd_factor_instance.factor_source_id,
                 public_key |-> hd_factor_instance.public_key.public_key,
                 path |-> path.value])
        ELSE Err("WrongEntityKindOfInFactorInstancesPath")

try_from_NoDownCast(hd_factor_instance, E) ==
    LET cap26 == as_cap26(hd_factor_instance.public_key.derivation_path)
    IN  IF cap26.tag = "Some"
        THEN IF ~is_transaction_signing(cap26.value.value.key_kind)
             THEN Err("WrongKeyKindOfTransactionSigningFactorInstance")
             ELSE Ok([E |-> E,
                      factor_source_id |-> hd_factor_instance.factor_source_id,
                      public_key |-> hd_factor_instance.public_key.public_key,
                      path |-> cap26.value])
        ELSE Err("WrongEntityKindOfInFactorInstancesPath")

try_from_FirstFactorSource(hd_factor_instance, E) ==
    LET path == and_then(as_cap26(hd_factor_instance.public_key.derivation_path), E)
    IN  IF path.tag = "Some"
        THEN IF ~is_transaction_signing(path.value.value.key_kind)
             THEN Err("WrongKeyKindOfTransactionSigningFactorInstance")
             ELSE Ok([E |-> E,
                      factor_source_id |-> "fsA",
                      public_key |-> hd_factor_instance.public_key.public_key,
                      path |-> path.value])
        ELSE Err("WrongEntityKindOfInFactorInstancesPath")

try_from_KeyKindFirst(hd_factor_instance, E) ==
    LET cap26 == as_cap26(hd_factor_instance.public_key.derivation_path)
        path == and_then(cap26, E)
    IN  IF cap26.tag = "Some" /\ ~is_transaction_signing(cap26.value.value.key_kind)
        THEN Err("WrongKeyKindOfTransactionSigningFactorInstance")
        ELSE IF path.tag = "Some"
        THEN Ok([E |-> E,
                 factor_source_id |-> hd_factor_instance.factor_source_id,
                 public_key |-> hd_factor_instance.public_key.public_key,
                 path |-> path.value])
        ELSE Err("WrongEntityKindOfInFactorInstancesPath")

try_from(hd_factor_instance, E) ==
    LET path == and_then(as_cap26(hd_factor_instance.public_key.derivation_path), E)
    IN  IF path.tag = "Some"
        THEN IF ~is_transaction_signing(path.value.value.key_kind)
             THEN Err("WrongKeyKindOfTransactionSigningFactorInstance")
             ELSE Ok([E |-> E,
                      factor_source_id |-> hd_factor_instance.factor_source_id,
                      public_key |-> hd_factor_instance.public_key.public_key,
                      path |-> path.value])
        ELSE Err("WrongEntityKindOfInFactorInstancesPath")

HDFactorInstanceAccountCreation_new(hd_factor_instance) ==
    try_from(hd_factor_instance, "AccountPath")

HDFactorInstanceIdentityCreation_new(hd_factor_instance) ==
    try_from(hd_factor_instance, "IdentityPath")

\* HDFactorInstanceTransactionSigning::public_key
hd_public_key_of(value) ==
    HierarchicalDeterministicPublicKey(value.public_key, derivation_path_of(value.path))

\* From<HDFactorInstanceTransactionSigning<E>> for the raw instance
into_raw(value) ==
    HierarchicalDeterministicFactorInstance(value.factor_source_id, hd_public_key_of(value))

TypeOfPath(E) == IF E = "AccountPath" THEN AccountPaths ELSE IdentityPaths

(***************************************************************************)
(* The binding component: a caller binds a raw instance and owns the typed *)
(* value the binding produced, if it produced one.                          *)
(***************************************************************************)
InitBinding ==
    /\ instance = None
    /\ bound = None

\* the binding component leaves the other components alone
BindingFrame == UNCHANGED <<lookups, addr, call, key, hd, codec, account, ordering, cell>>

\* the record of a call of new, and the typed value the caller holds after it
BindRecord(E, raw, result) ==
    Some([op |-> "new", E |-> E, raw |-> raw, result |-> result])

Held(result) == IF result.tag = "Ok" THEN Some(result.value) ELSE None

AccountCreationNew ==
    /\ \E raw \in RawInstances :
        LET result == HDFactorInstanceAccountCreation_new(raw)
        IN  /\ bound' = BindRecord("AccountPath", raw, result)
            /\ instance' = Held(result)
    /\ BindingFrame

IdentityCreationNew ==
    /\ \E raw \in RawInstances :
        LET result == HDFactorInstanceIdentityCreation_new(raw)
        IN  /\ bound' = BindRecord("IdentityPath", raw, result)
            /\ instance' = Held(result)
    /\ BindingFrame

\* `value.path = p`: the field is declared `pub path: E`
AssignPath ==
    /\ instance.tag = "Some"
    /\ \E p \in TypeOfPath(instance.value.E) :
        instance' = Some([instance.value EXCEPT !.path = p])
    /\ UNCHANGED bound
    /\ BindingFrame

\* `value.factor_source_id = f`: the field is declared `pub factor_source_id`
AssignFactorSourceId ==
    /\ instance.tag = "Some"
    /\ \E f \in FactorSourceIDs :
        instance' = Some([instance.value EXCEPT !.factor_source_id = f])
    /\ UNCHANGED bound
    /\ BindingFrame

\* the typed value converted back into a raw instance
IntoRaw ==
    /\ instance.tag = "Some"
    /\ bound' = Some([op |-> "into", E |-> instance.value.E,
                      raw |-> into_raw(instance.value),
                      result |-> Ok(instance.value)])
    /\ UNCHANGED instance
    /\ BindingFrame

NextBinding ==
    \/ AccountCreationNew
    \/ IdentityCreationNew
    \/ AssignPath
    \/ AssignFactorSourceId
    \/ IntoRaw

(***************************************************************************)
(* The network registry.                                                   *)
(***************************************************************************)
\* NetworkID::discriminant, the u8 of each network
discriminant(id) ==
    CASE id = "Mainnet" -> 1
      [] id = "Stokenet" -> 2
      [] id = "Adapanet" -> 10
      [] id = "Nebunet" -> 11
      [] id = "Kisharnet" -> 12
      [] id = "Ansharnet" -> 13
      [] id = "Zabanet" -> 14
      [] id = "Enkinet" -> 33
      [] id = "Hammunet" -> 34
      [] id = "Nergalnet" -> 35
      [] id = "Mardunet" -> 36
      [] id = "Simulator" -> 242

\* NetworkID::network_definition().logical_name
network_definition_logical_name(id) ==
    CASE id = "Mainnet" -> "mainnet"
      [] id = "Stokenet" -> "stokenet"
      [] id = "Adapanet" -> "adapanet"
      [] id = "Nebunet" -> "nebunet"
      [] id = "Kisharnet" -> "kisharnet"
      [] id = "Ansharnet" -> "ansharnet"
      [] id = "Zabanet" -> "zabanet"
      [] id = "Enkinet" -> "enkinet"
      [] id = "Hammunet" -> "hammunet"
      [] id = "Nergalnet" -> "nergalnet"
      [] id = "Mardunet" -> "mardunet"
      [] id = "Simulator" -> "simulator"

declare(id, display) ==
    [logical_name |-> network_definition_logical_name(id),
     id |-> id,
     display_description |-> display]

mainnet == declare("Mainnet", "Mainnet")
stokenet == declare("Stokenet", "Stokenet")
nebunet == declare("Nebunet", "Betanet")
kisharnet == declare("Kisharnet", "RCnet (Test Network)")
ansharnet == declare("Ansharnet", "RCnet-V2 (Test Network)")
zabanet == declare("Zabanet", "RCnet-V3 (Test Network)")
hammunet == declare("Hammunet", "Hammunet (Test Network)")
enkinet == declare("Enkinet", "Enkinet (Test Network)")
nergalnet == declare("Nergalnet", "Nergalnet (Test Network)")
mardunet == declare("Mardunet", "Mardunet (Test Network)")

\* the HashMap<NetworkID, RadixNetwork> every lookup builds
lookup_map ==
    ("Mainnet" :> mainnet) @@ ("Stokenet" :> stokenet) @@ ("Nebunet" :> nebunet)
        @@ ("Kisharnet" :> kisharnet) @@ ("Ansharnet" :> ansharnet)
        @@ ("Zabanet" :> zabanet) @@ ("Hammunet" :> hammunet)
        @@ ("Enkinet" :> enkinet) @@ ("Mardunet" :> mardunet)
        @@ ("Nergalnet" :> nergalnet)

UnknownNetworkForID(d) == [kind |-> "UnknownNetworkForID", payload |-> d]
UnknownNetworkWithName(name) == [kind |-> "UnknownNetworkWithName", payload |-> name]

lookup_by_id_OrDefault(id) ==
    IF id \in DOMAIN lookup_map THEN Ok(lookup_map[id]) ELSE Ok(mainnet)

lookup_by_id(id) ==
    IF id \in DOMAIN lookup_map
    THEN Ok(lookup_map[id])
    ELSE Err(UnknownNetworkForID(discriminant(id)))

\* the results lookup_by_name can return: `find` yields the first match in the
\* HashMap's iteration order, which is any of the matching entries
lookup_by_name_ByDisplay(logical_name) ==
    LET found == {id \in DOMAIN lookup_map :
                    lookup_map[id].display_description = logical_name}
    IN  IF found = {}
        THEN {Err(UnknownNetworkWithName(logical_name))}
        ELSE {lookup_by_id(id) : id \in found}

lookup_by_name_FirstEntry(logical_name) ==
    LET found == {id \in DOMAIN lookup_map :
                    lookup_map[id].logical_name = logical_name}
    IN  IF found = {}
        THEN {Err(UnknownNetworkWithName(logical_name))}
        ELSE {lookup_by_id(id) : id \in DOMAIN lookup_map}

lookup_by_name(logical_name) ==
    LET found == {id \in DOMAIN lookup_map :
                    lookup_map[id].logical_name = logical_name}
    IN  IF found = {}
        THEN {Err(UnknownNetworkWithName(logical_name))}
        ELSE {lookup_by_id(id) : id \in found}

\* the names drawn as inputs of lookup_by_name
LookupNames ==
    {network_definition_logical_name(id) : id \in NetworkIDs}
        \cup {"Mainnet", "MAINNET", "Betanet", "x", ""}

Callers == 1..NumCallers

RegistryFrame == UNCHANGED <<instance, bound, addr, call, key, hd, codec, account, ordering, cell>>

LookupById ==
    /\ \E c \in Callers, id \in NetworkIDs :
        lookups' = [lookups EXCEPT ![c] =
            Some([op |-> "lookup_by_id", id |-> id, result |-> lookup_by_id(id)])]
    /\ RegistryFrame

LookupByName ==
    /\ \E c \in Callers, name \in LookupNames :
        \E r \in lookup_by_name(name) :
            lookups' = [lookups EXCEPT ![c] =
                Some([op |-> "lookup_by_name", name |-> name, result |-> r])]
    /\ RegistryFrame

NextRegistry ==
    \/ LookupById
    \/ LookupByName

(***************************************************************************)
(* Entity addresses.  An address string is modelled by its parts: the HRP   *)
(* (entity prefix and network segment), the payload (entity byte and key    *)
(* hash) and the checksum over them.                                        *)
(***************************************************************************)
AbstractEntityTypes == {"Account", "Identity", "Resource"}

\* the address types implementing EntityAddress
AddressTypes == {"AccountAddress", "IdentityAddress", "ResourceAddress"}

entity_type(T) ==
    CASE T = "AccountAddress" -> "Account"
      [] T = "IdentityAddress" -> "Identity"
      [] T = "ResourceAddress" -> "Resource"

\* AbstractEntityType::hrp
hrp(e) ==
    CASE e = "Account" -> "account"
      [] e = "Identity" -> "identity"
      [] e = "Resource" -> "resource"

\* the hash of a public key that a virtual component id embeds: distinct
\* keys have distinct hashes
key_hash(public_key) ==
    2 * public_key.id + (IF public_key.curve = "Ed25519" THEN 0 ELSE 1)

\* the engine's entity byte of a virtual account / identity of each curve
virtual_account_address_from_public_key(public_key) ==
    [byte |-> IF public_key.curve = "Ed25519" THEN 81 ELSE 209,
     hash |-> key_hash(public_key)]

virtual_identity_address_from_public_key(public_key) ==
    [byte |-> IF public_key.curve = "Ed25519" THEN 82 ELSE 210,
     hash |-> key_hash(public_key)]

\* the entity type an entity byte stands for, None for any other byte
entity_type_of_byte(b) ==
    CASE b \in {81, 209} -> Some("Account")
      [] b \in {82, 210} -> Some("Identity")
      [] b \in {93, 154} -> Some("Resource")
      [] OTHER -> None

\* NetworkID::from_repr, the inverse of discriminant
from_repr(d) ==
    IF \E id \in NetworkIDs : discriminant(id) = d
    THEN Some(CHOOSE id \in NetworkIDs : discriminant(id) = d)
    ELSE None

\* the bech32 checksum over HRP and payload
checksum(prefix, net, byte, hash) == (Len(prefix) + net + 3 * byte + 7 * hash) % 32

\* Display of SerializableNodeIdInternal: the bech32 encoding of a node id on
\* the network with the given u8 id
format_node(node) ==
    LET prefix == hrp(entity_type_of_byte(node.node_id.byte).value)
    IN  [prefix |-> prefix,
         net |-> node.network_id,
         byte |-> node.node_id.byte,
         hash |-> node.node_id.hash,
         check |-> checksum(prefix, node.network_id, node.node_id.byte,
                            node.node_id.hash)]

FailedToDecodeAddressFromBech32 == "FailedToDecodeAddressFromBech32"
MismatchingEntityTypeWhileDecodingAddress == "MismatchingEntityTypeWhileDecodingAddress"

\* decode_address: the (network_id, entity_type, hrp) a string decodes to.
\* Malformed input (a bad checksum, an HRP prefix of no known entity kind, an
\* unknown network segment, an unknown entity byte) fails.  A well-formed
\* string whose HRP prefix is of another entity kind than its payload is
\* either rejected or decoded as it is: both are left open.
decode_address(s) ==
    LET e == entity_type_of_byte(s.byte)
        n == from_repr(s.net)
    IN  IF \/ s.check # checksum(s.prefix, s.net, s.byte, s.hash)
           \/ s.prefix \notin {hrp(k) : k \in AbstractEntityTypes}
           \/ e.tag = "None"
           \/ n.tag = "None"
        THEN {Err(FailedToDecodeAddressFromBech32)}
        ELSE {Ok([network_id |-> n.value, entity_type |-> e.value,
                  hrp |-> [prefix |-> s.prefix, net |-> s.net]])}
             \cup (IF s.prefix # hrp(e.value)
                   THEN {Err(FailedToDecodeAddressFromBech32)} ELSE {})

\* hrp.starts_with(prefix)
starts_with(h, prefix) == h.prefix = prefix

\* a value returned by a function that returns no Result
Return(v) == [tag |-> "Return", value |-> v]

\* __with_address_and_network_id: implementing types panic when the address
\* does not start with the HRP of their entity type
with_address_and_network_id(T, address, network_id) ==
    IF address.prefix = hrp(entity_type(T))
    THEN Return([address |-> address, network_id |-> network_id])
    ELSE Panic

from_public_key_AlwaysAccount(T, public_key, network_id) ==
    LET component == virtual_account_address_from_public_key(public_key)
        node == [network_id |-> discriminant(network_id), node_id |-> component]
    IN  Return([address |-> format_node(node), network_id |-> network_id])

from_public_key_Mainnet(T, public_key, network_id) ==
    LET e == entity_type(T)
    IN  IF e = "Resource"
        THEN Panic
        ELSE LET component ==
                    IF e = "Account"
                    THEN virtual_account_address_from_public_key(public_key)
                    ELSE virtual_identity_address_from_public_key(public_key)
                 node == [network_id |-> discriminant("Mainnet"),
                          node_id |-> component]
             IN  with_address_and_network_id(T, format_node(node), network_id)

from_public_key(T, public_key, network_id) ==
    LET e == entity_type(T)
    IN  IF e = "Resource"
        THEN Panic
        ELSE LET component ==
                    IF e = "Account"
                    THEN virtual_account_address_from_public_key(public_key)
                    ELSE virtual_identity_address_from_public_key(public_key)
                 node == [network_id |-> discriminant(network_id),
                          node_id |-> component]
             IN  with_address_and_network_id(T, format_node(node), network_id)

\* what try_from_bech32 makes of one outcome d of decode_address(s)
try_from_decoded_NoEntityTypeCheck(T, s, d) ==
    IF d.tag = "Err"
    THEN d
    ELSE IF ~starts_with(d.value.hrp, hrp(d.value.entity_type))
         THEN Panic
         ELSE LET r == with_address_and_network_id(T, s, d.value.network_id)
              IN  IF r.tag = "Return" THEN Ok(r.value) ELSE r

try_from_decoded_HRPError(T, s, d) ==
    IF d.tag = "Err"
    THEN d
    ELSE IF d.value.entity_type # entity_type(T)
         THEN Err(MismatchingEntityTypeWhileDecodingAddress)
         ELSE IF ~starts_with(d.value.hrp, hrp(d.value.entity_type))
              THEN Err("MismatchingHRPWhileDecodingAddress")
              ELSE LET r == with_address_and_network_id(T, s, d.value.network_id)
                   IN  IF r.tag = "Return" THEN Ok(r.value) ELSE r

try_from_decoded(T, s, d) ==
    IF d.tag = "Err"
    THEN d
    ELSE IF d.value.entity_type # entity_type(T)
         THEN Err(MismatchingEntityTypeWhileDecodingAddress)
         ELSE IF ~starts_with(d.value.hrp, hrp(d.value.entity_type))
              THEN Panic
              ELSE LET r == with_address_and_network_id(T, s, d.value.network_id)
                   IN  IF r.tag = "Return" THEN Ok(r.value) ELSE r

\* the results try_from_bech32 can return
try_from_bech32(T, s) == {try_from_decoded(T, s, d) : d \in decode_address(s)}

(***************************************************************************)
(* Account construction and the secure storage.                            *)
(***************************************************************************)
\* HierarchicalDeterministicFactorInstance::placeholder ends in todo!()
HierarchicalDeterministicFactorInstance_placeholder == Panic

DisplayNames == {"Test", "New"}
AppearanceIDs == {0, 1}

with_values(address, display_name, appearance_id) ==
    LET factor_instance == HierarchicalDeterministicFactorInstance_placeholder
    IN  IF factor_instance.tag = "Panic"
        THEN Panic
        ELSE Return([network_id |-> address.network_id,
                     address |-> address,
                     display_name |-> display_name,
                     appearance_id |-> appearance_id,
                     flags |-> {},
                     on_ledger_settings |-> "default",
                     security_state |->
                        [tag |-> "Unsecured", entity_index |-> 0,
                         transaction_signing |-> factor_instance.value]])

SecureStorageKeys == {"keyA", "keyB"}
SecureStorageValues == {<<>>, <<1>>}

\* MockSecureStorage
load_data(storage_key) == Panic
save_data(storage_key, value) == Panic

(***************************************************************************)
(* The entity component: a caller derives an address from a public key,    *)
(* decodes address strings, creates an account and uses the storage.       *)
(***************************************************************************)
\* the strings handed to try_from_bech32: the address last produced, as it is
\* or changed in one of these ways
Tampers ==
    {"none", "checksum", "hrp_unknown", "hrp_swap", "byte_swap", "other_kind",
     "resource", "net_unknown", "byte_unknown"}

other_prefix(prefix) == IF prefix = "account" THEN "identity" ELSE "account"
other_byte(b) ==
    CASE b = 81 -> 82 [] b = 82 -> 81 [] b = 209 -> 210 [] b = 210 -> 209

resealed(s) ==
    [s EXCEPT !.check = checksum(s.prefix, s.net, s.byte, s.hash)]

Tamper(s, t) ==
    CASE t = "none" -> s
      [] t = "checksum" -> [s EXCEPT !.check = (s.check + 1) % 32]
      [] t = "hrp_unknown" -> resealed([s EXCEPT !.prefix = "component"])
      [] t = "hrp_swap" -> resealed([s EXCEPT !.prefix = other_prefix(s.prefix)])
      [] t = "byte_swap" -> resealed([s EXCEPT !.byte = other_byte(s.byte)])
      [] t = "other_kind" ->
            resealed([s EXCEPT !.prefix = other_prefix(s.prefix),
                               !.byte = other_byte(s.byte)])
      [] t = "resource" -> resealed([s EXCEPT !.prefix = "resource", !.byte = 93])
      [] t = "net_unknown" -> resealed([s EXCEPT !.net = 99])
      [] t = "byte_unknown" -> resealed([s EXCEPT !.byte = 0])

\* hd::SimpleNetworkID, the network id of a derivation path: a type of the
\* hierarchical_deterministic crate with the variants of NetworkID
SimpleNetworkID(variant) == [type |-> "hd::SimpleNetworkID", variant |-> variant]

SimpleNetworkIDs == {SimpleNetworkID(n) : n \in NetworkIDs}

NetworkID_from_SimpleNetworkID_Swapped(value) ==
    CASE value = SimpleNetworkID("Mainnet") -> "Stokenet"
      [] value = SimpleNetworkID("Stokenet") -> "Mainnet"
      [] value = SimpleNetworkID("Adapanet") -> "Adapanet"
      [] value = SimpleNetworkID("Kisharnet") -> "Kisharnet"
      [] value = SimpleNetworkID("Nebunet") -> "Nebunet"
      [] value = SimpleNetworkID("Ansharnet") -> "Ansharnet"
      [] value = SimpleNetworkID("Zabanet") -> "Zabanet"
      [] value = SimpleNetworkID("Enkinet") -> "Enkinet"
      [] value = SimpleNetworkID("Hammunet") -> "Hammunet"
      [] value = SimpleNetworkID("Nergalnet") -> "Nergalnet"
      [] value = SimpleNetworkID("Mardunet") -> "Mardunet"
      [] value = SimpleNetworkID("Simulator") -> "Simulator"

\* impl From<hd::SimpleNetworkID> for NetworkID
NetworkID_from_SimpleNetworkID(value) ==
    CASE value = SimpleNetworkID("Mainnet") -> "Mainnet"
      [] value = SimpleNetworkID("Stokenet") -> "Stokenet"
      [] value = SimpleNetworkID("Adapanet") -> "Adapanet"
      [] value = SimpleNetworkID("Kisharnet") -> "Kisharnet"
      [] value = SimpleNetworkID("Nebunet") -> "Nebunet"
      [] value = SimpleNetworkID("Ansharnet") -> "Ansharnet"
      [] value = SimpleNetworkID("Zabanet") -> "Zabanet"
      [] value = SimpleNetworkID("Enkinet") -> "Enkinet"
      [] value = SimpleNetworkID("Hammunet") -> "Hammunet"
      [] value = SimpleNetworkID("Nergalnet") -> "Nergalnet"
      [] value = SimpleNetworkID("Mardunet") -> "Mardunet"
      [] value = SimpleNetworkID("Simulator") -> "Simulator"

\* impl From<NetworkID> for hd::SimpleNetworkID
SimpleNetworkID_from_NetworkID(value) ==
    CASE value = "Mainnet" -> SimpleNetworkID("Mainnet")
      [] value = "Stokenet" -> SimpleNetworkID("Stokenet")
      [] value = "Adapanet" -> SimpleNetworkID("Adapanet")
      [] value = "Kisharnet" -> SimpleNetworkID("Kisharnet")
      [] value = "Nebunet" -> SimpleNetworkID("Nebunet")
      [] value = "Ansharnet" -> SimpleNetworkID("Ansharnet")
      [] value = "Zabanet" -> SimpleNetworkID("Zabanet")
      [] value = "Enkinet" -> SimpleNetworkID("Enkinet")
      [] value = "Hammunet" -> SimpleNetworkID("Hammunet")
      [] value = "Nergalnet" -> SimpleNetworkID("Nergalnet")
      [] value = "Mardunet" -> SimpleNetworkID("Mardunet")
      [] value = "Simulator" -> SimpleNetworkID("Simulator")

EntityFrame == UNCHANGED <<instance, bound, lookups, key, hd, codec, account, ordering, cell>>

FromPublicKey ==
    /\ \E T \in AddressTypes, public_key \in PublicKeys, network_id \in NetworkIDs :
        LET r == from_public_key(T, public_key, network_id)
        IN  /\ call' = Some([op |-> "from_public_key", T |-> T,
                             public_key |-> public_key,
                             network_id |-> network_id, result |-> r])
            /\ addr' = IF r.tag = "Return"
                       THEN Some([T |-> T, public_key |-> public_key,
                                  network_id |-> network_id, value |-> r.value])
                       ELSE None
    /\ EntityFrame

TryFromBech32 ==
    /\ addr.tag = "Some"
    /\ \E T \in AddressTypes, t \in Tampers :
        LET s == Tamper(addr.value.value.address, t)
        IN  \E d \in decode_address(s) :
                call' = Some([op |-> "try_from_bech32", T |-> T, s |-> s,
                              tamper |-> t, decoded |-> d,
                              result |-> try_from_decoded(T, s, d)])
    /\ UNCHANGED addr
    /\ EntityFrame

WithValues ==
    /\ addr.tag = "Some"
    /\ addr.value.T = "AccountAddress"
    /\ \E display_name \in DisplayNames, appearance_id \in AppearanceIDs :
        call' = Some([op |-> "with_values", display_name |-> display_name,
                      appearance_id |-> appearance_id,
                      result |-> with_values(addr.value.value, display_name,
                                             appearance_id)])
    /\ UNCHANGED addr
    /\ EntityFrame

LoadData ==
    /\ \E k \in SecureStorageKeys :
        call' = Some([op |-> "load_data", storage_key |-> k,
                      result |-> load_data(k)])
    /\ UNCHANGED addr
    /\ EntityFrame

SaveData ==
    /\ \E k \in SecureStorageKeys, v \in SecureStorageValues :
        call' = Some([op |-> "save_data", storage_key |-> k, data |-> v,
                      result |-> save_data(k, v)])
    /\ UNCHANGED addr
    /\ EntityFrame

\* simple_network_id.into(), and the conversion back of what it returned
NetworkIDFrom ==
    /\ \E value \in SimpleNetworkIDs :
        LET n == NetworkID_from_SimpleNetworkID(value)
        IN  call' = Some([op |-> "NetworkID::from", value |-> value,
                          result |-> Return(n),
                          back |-> SimpleNetworkID_from_NetworkID(n)])
    /\ UNCHANGED addr
    /\ EntityFrame

\* network_id.into(), and the conversion back of what it returned
SimpleNetworkIDFrom ==
    /\ \E value \in NetworkIDs :
        LET n == SimpleNetworkID_from_NetworkID(value)
        IN  call' = Some([op |-> "SimpleNetworkID::from", value |-> value,
                          result |-> Return(n),
                          back |-> NetworkID_from_SimpleNetworkID(n)])
    /\ UNCHANGED addr
    /\ EntityFrame

NextEntity ==
    \/ FromPublicKey
    \/ TryFromBech32
    \/ WithValues
    \/ LoadData
    \/ SaveData
    \/ NetworkIDFrom
    \/ SimpleNetworkIDFrom

(***************************************************************************)
(* Secp256k1PublicKey.  A byte vector is modelled by its length, its first  *)
(* byte (the SEC1 tag) and the number of the x coordinate that follows.     *)
(***************************************************************************)
\* the length of the compressed encoding
Secp256k1PublicKeyLength == 33

ByteLengths == {0, 1, 2, 32, 33, 34, 65}
Sec1Tags == {2, 3, 4, 153}
ByteVecs == [len : ByteLengths, tag : Sec1Tags, x : 0..MaxX]

\* BIP32Secp256k1PublicKey::from_sec1_bytes accepts the compressed encoding
\* (tag 02 or 03) of an x coordinate that has a point on the curve
from_sec1_bytes_ok(bytes) ==
    /\ bytes.len = Secp256k1PublicKeyLength
    /\ bytes.tag \in {2, 3}
    /\ bytes.x % 2 = 0

\* EngineSecp256k1PublicKey::try_from(&[u8]) checks the length alone
engine_try_from(bytes) ==
    IF bytes.len = Secp256k1PublicKeyLength THEN Ok(bytes) ELSE Err("ParseError")

InvalidSecp256k1PublicKeyFromBytes(bytes) ==
    [kind |-> "InvalidSecp256k1PublicKeyFromBytes", payload |-> bytes]
InvalidSecp256k1PublicKeyFromString(hex) ==
    [kind |-> "InvalidSecp256k1PublicKeyFromString", payload |-> hex]
InvalidSecp256k1PublicKeyPointNotOnCurve ==
    [kind |-> "InvalidSecp256k1PublicKeyPointNotOnCurve"]

from_engine(engine) ==
    IF from_sec1_bytes_ok(engine)
    THEN Ok([value |-> engine])
    ELSE Err(InvalidSecp256k1PublicKeyPointNotOnCurve)

from_bytes_NoCurveCheck(bytes) ==
    LET e == engine_try_from(bytes)
    IN  IF e.tag = "Err"
        THEN Err(InvalidSecp256k1PublicKeyFromBytes(bytes))
        ELSE Ok([value |-> e.value])

from_bytes(bytes) ==
    LET e == engine_try_from(bytes)
    IN  IF e.tag = "Err"
        THEN Err(InvalidSecp256k1PublicKeyFromBytes(bytes))
        ELSE from_engine(e.value)

\* a string is the hex text of a byte vector or no hex text at all
HexStrings ==
    {[valid |-> TRUE, bytes |-> b] : b \in ByteVecs}
        \cup {[valid |-> FALSE, bytes |-> [len |-> 0, tag |-> 2, x |-> 0]]}

hex_decode(hex) == IF hex.valid THEN Ok(hex.bytes) ELSE Err("FromHexError")

from_hex(hex) ==
    LET b == hex_decode(hex)
    IN  IF b.tag = "Err"
        THEN Err(InvalidSecp256k1PublicKeyFromString(hex))
        ELSE from_bytes(b.value)

\* #[derive(Deserialize)] with serde(transparent) and serde_with::hex::Hex:
\* the JSON string is hex-decoded into the field value and nothing else
Secp256k1PublicKey_deserialize(json) ==
    LET b == hex_decode(json)
    IN  IF b.tag = "Err" THEN Err("SerdeError") ELSE Ok([value |-> b.value])

\* EngineSecp256k1PublicKey::try_from(self.to_bytes().as_slice()).unwrap()
to_engine(self) ==
    LET e == engine_try_from(self.value)
    IN  IF e.tag = "Err" THEN Panic ELSE Return(e.value)

(***************************************************************************)
(* Ed25519PrivateKey.  The bytes of a private key are modelled by the same  *)
(* byte vectors; only their length decides whether they are a key.          *)
(***************************************************************************)
\* the length of an Ed25519 private key (Hex32Bytes, `bytes.len() == 32`)
Ed25519PrivateKeyLength == 32

\* EngineEd25519PrivateKey::from_bytes accepts exactly 32 bytes, and every
\* 32 bytes are a private key
EngineEd25519PrivateKey_from_bytes(slice) ==
    IF slice.len = Ed25519PrivateKeyLength THEN Ok(slice) ELSE Err("ParseError")

InvalidEd25519PrivateKeyFromBytes(bytes) ==
    [kind |-> "InvalidEd25519PrivateKeyFromBytes", payload |-> bytes]
InvalidEd25519PrivateKeyFromString(s) ==
    [kind |-> "InvalidEd25519PrivateKeyFromString", payload |-> s]

Ed25519PrivateKey_from_engine(engine) == [curve |-> "Ed25519", value |-> engine]

Ed25519PrivateKey_from_bytes(slice) ==
    LET e == EngineEd25519PrivateKey_from_bytes(slice)
    IN  IF e.tag = "Err"
        THEN Err(InvalidEd25519PrivateKeyFromBytes(slice))
        ELSE Ok(Ed25519PrivateKey_from_engine(e.value))

\* Hex32Bytes::from_hex decodes the hex text and requires exactly 32 bytes
Hex32Bytes_from_hex(s) ==
    LET b == hex_decode(s)
    IN  IF b.tag = "Err"
        THEN Err("StringNotHex")
        ELSE IF b.value.len = Ed25519PrivateKeyLength
             THEN Ok(b.value)
             ELSE Err("InvalidByteCountExpected32")

Ed25519PrivateKey_from_str_NoLengthCheck(s) ==
    LET b == hex_decode(s)
    IN  IF b.tag = "Err"
        THEN Err(InvalidEd25519PrivateKeyFromString(s))
        ELSE Ed25519PrivateKey_from_bytes(b.value)

Ed25519PrivateKey_from_str(s) ==
    LET b == Hex32Bytes_from_hex(s)
    IN  IF b.tag = "Err"
        THEN Err(InvalidEd25519PrivateKeyFromString(s))
        ELSE Ed25519PrivateKey_from_bytes(b.value)

(***************************************************************************)
(* The PrivateKey tagged union.  A curve-specific private key is modelled   *)
(* by its type and the number of its key material; the union by the curve   *)
(* tag and that number.                                                     *)
(***************************************************************************)
Ed25519PrivateKeys == [type : {"Ed25519PrivateKey"}, id : 0..MaxKeyId]
Secp256k1PrivateKeys == [type : {"Secp256k1PrivateKey"}, id : 0..MaxKeyId]

\* From<Ed25519PrivateKey> and From<Secp256k1PrivateKey> for PrivateKey
PrivateKey_from(value) ==
    IF value.type = "Ed25519PrivateKey"
    THEN [curve |-> "Ed25519", id |-> value.id]
    ELSE [curve |-> "Secp256k1", id |-> value.id]

as_ed25519_Unchecked(self) ==
    Some([type |-> "Ed25519PrivateKey", id |-> self.id])

\* #[derive(EnumAsInner)]
as_ed25519(self) ==
    IF self.curve = "Ed25519"
    THEN Some([type |-> "Ed25519PrivateKey", id |-> self.id])
    ELSE None

as_secp256k1(self) ==
    IF self.curve = "Secp256k1"
    THEN Some([type |-> "Secp256k1PrivateKey", id |-> self.id])
    ELSE None

KeysFrame == UNCHANGED <<instance, bound, lookups, addr, call, hd, codec, account, ordering, cell>>

Secp256k1Deserialize ==
    /\ \E json \in HexStrings :
        key' = Some([op |-> "secp256k1_deserialize", hex |-> json,
                     result |-> Secp256k1PublicKey_deserialize(json)])
    /\ KeysFrame

\* to_engine of the Secp256k1PublicKey the last call returned
ToEngine ==
    /\ key.tag = "Some"
    /\ key.value.op \in {"from_bytes", "from_hex", "secp256k1_deserialize"}
    /\ key.value.result.tag = "Ok"
    /\ key' = Some([op |-> "to_engine", self |-> key.value.result.value,
                    result |-> to_engine(key.value.result.value)])
    /\ KeysFrame

FromBytes ==
    /\ \E bytes \in ByteVecs :
        key' = Some([op |-> "from_bytes", bytes |-> bytes,
                     result |-> from_bytes(bytes)])
    /\ KeysFrame

FromHex ==
    /\ \E hex \in HexStrings :
        key' = Some([op |-> "from_hex", hex |-> hex, result |-> from_hex(hex)])
    /\ KeysFrame

Ed25519FromBytes ==
    /\ \E bytes \in ByteVecs :
        key' = Some([op |-> "ed25519_from_bytes", bytes |-> bytes,
                     result |-> Ed25519PrivateKey_from_bytes(bytes)])
    /\ KeysFrame

Ed25519FromStr ==
    /\ \E s \in HexStrings :
        key' = Some([op |-> "ed25519_from_str", hex |-> s,
                     result |-> Ed25519PrivateKey_from_str(s)])
    /\ KeysFrame

IntoAsEd25519 ==
    /\ \E value \in Ed25519PrivateKeys \cup Secp256k1PrivateKeys :
        key' = Some([op |-> "as_ed25519", inner |-> value,
                     result |-> as_ed25519(PrivateKey_from(value))])
    /\ KeysFrame

IntoAsSecp256k1 ==
    /\ \E value \in Ed25519PrivateKeys \cup Secp256k1PrivateKeys :
        key' = Some([op |-> "as_secp256k1", inner |-> value,
                     result |-> as_secp256k1(PrivateKey_from(value))])
    /\ KeysFrame

NextKeys ==
    \/ FromBytes
    \/ FromHex
    \/ Ed25519FromBytes
    \/ Ed25519FromStr
    \/ IntoAsEd25519
    \/ IntoAsSecp256k1
    \/ Secp256k1Deserialize
    \/ ToEngine

(***************************************************************************)
(* HierarchicalDeterministicPrivateKey: a private key and the derivation    *)
(* path said to have derived it.  A private key is modelled by its curve    *)
(* and the number of its key material.                                      *)
(***************************************************************************)
PrivateKeys == [curve : Curves, id : 0..MaxKeyId]

\* PrivateKey::public_key keeps the curve of the private key
PrivateKey_public_key_AlwaysEd25519(private_key) ==
    [curve |-> "Ed25519", id |-> private_key.id]

PrivateKey_public_key(private_key) ==
    [curve |-> private_key.curve, id |-> private_key.id]

HierarchicalDeterministicPrivateKey_new(private_key, derivation_path) ==
    [private_key |-> private_key, derivation_path |-> derivation_path]

HierarchicalDeterministicPrivateKey_placeholder ==
    HierarchicalDeterministicPrivateKey_new(
        [curve |-> "Ed25519", id |-> 0],
        [tag |-> "CAP26",
         value |-> [tag |-> "AccountPath",
                    value |-> [network_id |-> "Mainnet",
                               key_kind |-> "TransactionSigning",
                               index |-> 0]]])

HierarchicalDeterministicPrivateKey_public_key(self) ==
    HierarchicalDeterministicPublicKey(
        PrivateKey_public_key(self.private_key), self.derivation_path)

HDFrame == UNCHANGED <<instance, bound, lookups, addr, call, key, codec, account, ordering, cell>>

HDNew ==
    /\ \E private_key \in PrivateKeys, derivation_path \in DerivationPaths :
        hd' = Some([key |-> HierarchicalDeterministicPrivateKey_new(
                                private_key, derivation_path),
                    public |-> None])
    /\ HDFrame

HDPlaceholder ==
    /\ hd' = Some([key |-> HierarchicalDeterministicPrivateKey_placeholder,
                   public |-> None])
    /\ HDFrame

HDPublicKey ==
    /\ hd.tag = "Some"
    /\ hd' = Some([key |-> hd.value.key,
                   public |-> Some(HierarchicalDeterministicPrivateKey_public_key(
                                       hd.value.key))])
    /\ HDFrame

NextHD ==
    \/ HDNew
    \/ HDPlaceholder
    \/ HDPublicKey


(***************************************************************************)
(* The CAP26 protocol constants and the path codec.  A path string is       *)
(* modelled by the text before the first "/" and the components after it,   *)
(* each a number with or without the hardening suffix "H".                  *)
(***************************************************************************)
CAP26EntityKinds == {"Account", "Identity"}

CAP26EntityKind_repr_Swapped(kind) ==
    CASE kind = "Account" -> 618
      [] kind = "Identity" -> 525

\* #[repr(u32)] enum CAP26EntityKind
CAP26EntityKind_repr(kind) ==
    CASE kind = "Account" -> 525
      [] kind = "Identity" -> 618

CAP26KeyKind_repr_Collide(kind) ==
    CASE kind = "TransactionSigning" -> 1460
      [] kind = "AuthenticationSigning" -> 1460
      [] kind = "MessageEncryption" -> 1391

\* #[repr(u32)] enum CAP26KeyKind
CAP26KeyKind_repr(kind) ==
    CASE kind = "TransactionSigning" -> 1460
      [] kind = "AuthenticationSigning" -> 1678
      [] kind = "MessageEncryption" -> 1391

\* strum::FromRepr of CAP26EntityKind
CAP26EntityKind_from_repr(v) ==
    IF \E kind \in CAP26EntityKinds : CAP26EntityKind_repr(kind) = v
    THEN Some(CHOOSE kind \in CAP26EntityKinds : CAP26EntityKind_repr(kind) = v)
    ELSE None

CAP26KeyKind_from_repr_OrTransactionSigning(v) ==
    IF \E kind \in CAP26KeyKinds : CAP26KeyKind_repr(kind) = v
    THEN Some(CHOOSE kind \in CAP26KeyKinds : CAP26KeyKind_repr(kind) = v)
    ELSE Some("TransactionSigning")

\* strum::FromRepr of CAP26KeyKind
CAP26KeyKind_from_repr(v) ==
    IF \E kind \in CAP26KeyKinds : CAP26KeyKind_repr(kind) = v
    THEN Some(CHOOSE kind \in CAP26KeyKinds : CAP26KeyKind_repr(kind) = v)
    ELSE None

\* the ASCII codes of the name each key kind's value is documented to sum
documented_name(kind) ==
    CASE kind = "TransactionSigning" ->
            \* TRANSACTION_SIGNING
            <<84, 82, 65, 78, 83, 65, 67, 84, 73, 79, 78, 95,
              83, 73, 71, 78, 73, 78, 71>>
      [] kind = "AuthenticationSigning" ->
            \* AUTHENTICATION_SIGNING
            <<65, 85, 84, 72, 69, 78, 84, 73, 67, 65, 84, 73, 79, 78, 95,
              83, 73, 71, 78, 73, 78, 71>>
      [] kind = "MessageEncryption" ->
            \* MESSAGE_ENCRYPTION
            <<77, 69, 83, 83, 65, 71, 69, 95,
              69, 78, 67, 82, 89, 80, 84, 73, 79, 78>>

RECURSIVE ascii_sum(_)
ascii_sum(codes) ==
    IF codes = <<>> THEN 0 ELSE Head(codes) + ascii_sum(Tail(codes))

\* the entity kind an entity-path variant fixes
entity_kind(E) ==
    CASE E = "AccountPath" -> "Account"
      [] E = "IdentityPath" -> "Identity"

\* NetworkID::from_repr, the inverse of the discriminant
NetworkID_from_repr(d) ==
    IF \E id \in NetworkIDs : discriminant(id) = d
    THEN Some(CHOOSE id \in NetworkIDs : discriminant(id) = d)
    ELSE None

H(v) == [value |-> v, hardened |-> TRUE]
N(v) == [value |-> v, hardened |-> FALSE]

\* an index is hardened by adding 2^31, so it is below 2^31 itself
is_index(v) == v >= 0 /\ v <= 2147483647

\* "m/44H/1022H/{network}H/{entity kind}H/{key kind}H/{index}H"
CAP26Path_to_string(p) ==
    [head |-> "m",
     components |-> <<H(44), H(1022), H(discriminant(p.value.network_id)),
                      H(CAP26EntityKind_repr(entity_kind(p.tag))),
                      H(CAP26KeyKind_repr(p.value.key_kind)),
                      H(p.value.index)>>]

\* "m/44H/1022H/0H/0/{index}H"
BIP44LikePath_to_string(p) ==
    [head |-> "m",
     components |-> <<H(44), H(1022), H(0), N(0), H(p.index)>>]

to_string(derivation_path) ==
    IF derivation_path.tag = "CAP26"
    THEN CAP26Path_to_string(derivation_path.value)
    ELSE BIP44LikePath_to_string(derivation_path.value)

\* AccountPath::from_str / IdentityPath::from_str
CAP26Path_from_str(E, s) ==
    LET c == s.components
    IN  IF \/ s.head # "m"
           \/ Len(c) # 6
           \/ \E i \in 1..Len(c) : ~c[i].hardened
           \/ c[1].value # 44
           \/ c[2].value # 1022
           \/ NetworkID_from_repr(c[3].value).tag = "None"
           \/ ~is_index(c[6].value)
        THEN Err("InvalidPath")
        ELSE IF c[4].value # CAP26EntityKind_repr(entity_kind(E))
        THEN Err("WrongEntityKind")
        ELSE IF CAP26KeyKind_from_repr(c[5].value).tag = "None"
        THEN Err("UnknownKeyKind")
        ELSE Ok([tag |-> E,
                 value |-> [network_id |-> NetworkID_from_repr(c[3].value).value,
                            key_kind |-> CAP26KeyKind_from_repr(c[5].value).value,
                            index |-> c[6].value]])

\* BIP44LikePath::from_str
BIP44LikePath_from_str(s) ==
    LET c == s.components
    IN  IF \/ s.head # "m"
           \/ Len(c) # 5
           \/ c[1] # H(44)
           \/ c[2] # H(1022)
           \/ c[3] # H(0)
           \/ c[4] # N(0)
           \/ ~c[5].hardened
           \/ ~is_index(c[5].value)
        THEN Err("InvalidPath")
        ELSE Ok([index |-> c[5].value])

\* parsing into a target: an entity-path variant or the BIP44-like path
PathTargets == {"AccountPath", "IdentityPath", "BIP44Like"}

from_str(target, s) ==
    IF target = "BIP44Like"
    THEN BIP44LikePath_from_str(s)
    ELSE CAP26Path_from_str(target, s)

\* the derivation path a parsed path is, and the target that parses it
into_derivation_path(target, p) ==
    IF target = "BIP44Like"
    THEN [tag |-> "BIP44Like", value |-> p]
    ELSE [tag |-> "CAP26", value |-> p]

target_of(derivation_path) ==
    IF derivation_path.tag = "CAP26"
    THEN derivation_path.value.tag
    ELSE "BIP44Like"

\* the paths serialized: every network id, kind and key kind, and the
\* smallest and the largest index
CodecIndices == 0..MaxIndex \cup {2147483647}
CodecPaths ==
    {[tag |-> "CAP26", value |-> [tag |-> E, value |-> v]] :
        E \in {"AccountPath", "IdentityPath"},
        v \in [network_id : NetworkIDs, key_kind : CAP26KeyKinds,
               index : CodecIndices]}
        \cup {[tag |-> "BIP44Like", value |-> [index |-> i]] : i \in CodecIndices}

\* the strings parsed: canonical ones and ones with one or more foreign parts
\* ("-1" stands for an index text that is no unsigned number below 2^31)
PathStrings ==
    {[head |-> "m",
      components |-> <<H(pu), H(1022), H(n), H(e), H(k),
                       [value |-> i, hardened |-> h]>>] :
        pu \in {44, 45}, n \in {1, 99}, e \in {525, 618, 999},
        k \in {1460, 1678, 1391, 7},
        i \in CodecIndices \cup {-1}, h \in BOOLEAN}
        \cup
    {[head |-> hd0,
      components |-> <<H(44), H(1022), H(0), [value |-> ch, hardened |-> hc],
                       [value |-> i, hardened |-> h]>>] :
        hd0 \in {"m", "n"}, ch \in {0, 1}, hc \in BOOLEAN,
        i \in CodecIndices \cup {-1}, h \in BOOLEAN}
        \cup {[head |-> "m", components |-> <<>>]}

\* the u32 values converted to a kind
ReprValues == {0, 1, 524, 525, 526, 618, 1391, 1460, 1678, 1679, 2147483647}

CodecFrame == UNCHANGED <<instance, bound, lookups, addr, call, key, hd, account, ordering, cell>>

PathToString ==
    /\ \E p \in CodecPaths :
        codec' = [op |-> "to_string", path |-> p, text |-> to_string(p)]
    /\ CodecFrame

PathFromStr ==
    /\ \E target \in PathTargets, s \in PathStrings :
        codec' = [op |-> "from_str", target |-> target, text |-> s,
                  result |-> from_str(target, s)]
    /\ CodecFrame

EntityKindFromRepr ==
    /\ \E v \in ReprValues :
        codec' = [op |-> "CAP26EntityKind::from_repr", repr |-> v,
                  result |-> CAP26EntityKind_from_repr(v)]
    /\ CodecFrame

KeyKindFromRepr ==
    /\ \E v \in ReprValues :
        codec' = [op |-> "CAP26KeyKind::from_repr", repr |-> v,
                  result |-> CAP26KeyKind_from_repr(v)]
    /\ CodecFrame

NextCodec ==
    \/ PathToString
    \/ PathFromStr
    \/ EntityKindFromRepr
    \/ KeyKindFromRepr


(***************************************************************************)
(* ThirdPartyDeposits and OnLedgerSettings.  A BTreeSet is modelled by the  *)
(* ascending sequence of its elements.                                      *)
(***************************************************************************)
DepositRules == {"AcceptAll", "DenyAll", "AcceptKnown"}
DepositAddressExceptionRules == {"Allow", "Deny"}
ResourceAddresses == {"resource_1", "resource_2"}

resource_rank(address) ==
    CASE address = "resource_1" -> 1
      [] address = "resource_2" -> 2

AssetException_new(address, exception_rule) ==
    [address |-> address, exception_rule |-> exception_rule]

\* #[derive(PartialOrd, Ord)] of DepositorAddress: the variant, then its value
DepositorAddresses ==
    {[tag |-> "ResourceAddress", value |-> "resource_1"],
     [tag |-> "NonFungibleGlobalID", value |-> "resource_1:#1#"]}

DepositorAddress_rank(d) == IF d.tag = "ResourceAddress" THEN 1 ELSE 2

\* an asset exception is keyed by its resource address
AssetException_rank(e) == resource_rank(e.address)

\* the order of the whole value: the address, then the rule
AssetException_rank_ByValue(e) ==
    2 * resource_rank(e.address) + (IF e.exception_rule = "Allow" THEN 0 ELSE 1)

RECURSIVE Ascending(_)
Ascending(S) ==
    IF S = {}
    THEN <<>>
    ELSE LET m == CHOOSE x \in S : \A y \in S : x <= y
         IN  <<m>> \o Ascending(S \ {m})

asset_exceptions_from_iter_ByValue(items) ==
    LET ks == Ascending({AssetException_rank_ByValue(items[i]) : i \in DOMAIN items})
        last(k) == CHOOSE i \in DOMAIN items :
                      /\ AssetException_rank_ByValue(items[i]) = k
                      /\ \A j \in DOMAIN items :
                            AssetException_rank_ByValue(items[j]) = k => j <= i
    IN  [n \in 1..Len(ks) |-> items[last(ks[n])]]

\* BTreeSet::from_iter of asset exceptions: of the items with one key the
\* last is kept
asset_exceptions_from_iter(items) ==
    LET ks == Ascending({AssetException_rank(items[i]) : i \in DOMAIN items})
        last(k) == CHOOSE i \in DOMAIN items :
                      /\ AssetException_rank(items[i]) = k
                      /\ \A j \in DOMAIN items :
                            AssetException_rank(items[j]) = k => j <= i
    IN  [n \in 1..Len(ks) |-> items[last(ks[n])]]

\* BTreeSet::from_iter of depositor addresses
allowed_depositors_from_iter(items) ==
    LET ks == Ascending({DepositorAddress_rank(items[i]) : i \in DOMAIN items})
        last(k) == CHOOSE i \in DOMAIN items :
                      /\ DepositorAddress_rank(items[i]) = k
                      /\ \A j \in DOMAIN items :
                            DepositorAddress_rank(items[j]) = k => j <= i
    IN  [n \in 1..Len(ks) |-> items[last(ks[n])]]

with_rule_and_lists(deposit_rule, asset_exceptions, allowed_depositors) ==
    [deposit_rule |-> deposit_rule,
     asset_exceptions |-> asset_exceptions,
     allowed_depositors |-> allowed_depositors]

ThirdPartyDeposits_default == with_rule_and_lists("AcceptAll", <<>>, <<>>)

set_deposit_rule(t, rule) == [t EXCEPT !.deposit_rule = rule]

OnLedgerSettings_new(third_party_deposits) ==
    [third_party_deposits |-> third_party_deposits]

OnLedgerSettings_default == OnLedgerSettings_new(ThirdPartyDeposits_default)

\* the closures given to update_on_ledger_settings:
\* |o| o.update_third_party_deposits(|t| t.set_deposit_rule(rule))
Updates == [rule : DepositRules]

apply_update(update, o) ==
    [o EXCEPT !.third_party_deposits = set_deposit_rule(@, update.rule)]

\* the item lists the sets of a ThirdPartyDeposits are collected from
a1A == AssetException_new("resource_1", "Allow")
a1D == AssetException_new("resource_1", "Deny")
a2A == AssetException_new("resource_2", "Allow")
AssetExceptionLists ==
    {<<>>, <<a1A>>, <<a1A, a1D>>, <<a1A, a2A>>, <<a1D, a1A, a2A>>}

dRes == [tag |-> "ResourceAddress", value |-> "resource_1"]
dNft == [tag |-> "NonFungibleGlobalID", value |-> "resource_1:#1#"]
DepositorAddressLists == {<<>>, <<dRes>>, <<dRes, dRes>>, <<dNft, dRes>>}

\* the settings a caller builds
NewOnLedgerSettings ==
    {OnLedgerSettings_new(
        with_rule_and_lists(rule, asset_exceptions_from_iter(es),
                            allowed_depositors_from_iter(ds))) :
        rule \in DepositRules, es \in AssetExceptionLists,
        ds \in DepositorAddressLists}

(***************************************************************************)
(* Account.  The fields network_id and address are public; the others are   *)
(* private, four of them behind a RefCell.                                  *)
(***************************************************************************)
EntityFlagSets == {{}, {"DeletedByUser"}}

\* two account addresses, one of each path network
AccountAddresses ==
    {from_public_key("AccountAddress", [curve |-> "Ed25519", id |-> 0], n).value :
        n \in PathNetworkIDs}

\* the factor instance of the security state of an account read from JSON
AccountFactorInstance ==
    HierarchicalDeterministicFactorInstance(
        "fsA",
        HierarchicalDeterministicPublicKey(
            [curve |-> "Ed25519", id |-> 0],
            [tag |-> "CAP26",
             value |-> [tag |-> "AccountPath",
                        value |-> [network_id |-> "Mainnet",
                                   key_kind |-> "TransactionSigning",
                                   index |-> 0]]]))

\* #[derive(Deserialize)]: an account with the fields the JSON gives
Account_deserialize(network_id, address, display_name, appearance_id, flags, on_ledger_settings, entity_index) ==
    [network_id |-> network_id,
     address |-> address,
     display_name |-> display_name,
     appearance_id |-> appearance_id,
     flags |-> flags,
     on_ledger_settings |-> on_ledger_settings,
     security_state |-> [tag |-> "Unsecured", entity_index |-> entity_index,
                         transaction_signing |-> AccountFactorInstance]]

get_display_name(self) == self.display_name

get_flags(self) == self.flags

get_appearance_id(self) == self.appearance_id

get_on_ledger_settings(self) == self.on_ledger_settings

set_display_name_ClearFlags(self, new) ==
    [self EXCEPT !.display_name = new, !.flags = {}]

set_display_name(self, new) == [self EXCEPT !.display_name = new]

set_flags_ResetSecurityState(self, new) ==
    [self EXCEPT !.flags = new, !.security_state.entity_index = 0]

set_flags(self, new) == [self EXCEPT !.flags = new]

set_appearance_id(self, new) == [self EXCEPT !.appearance_id = new]

set_on_ledger_settings(self, new) == [self EXCEPT !.on_ledger_settings = new]

update_on_ledger_settings(self, update) ==
    [self EXCEPT !.on_ledger_settings = apply_update(update, @)]

\* u32::cmp
u32_cmp(l, r) == IF l < r THEN "Less" ELSE IF l = r THEN "Equal" ELSE "Greater"

cmp_FieldsBreakTies(self, other) ==
    IF self.security_state.entity_index = other.security_state.entity_index
    THEN IF self = other THEN "Equal" ELSE "Less"
    ELSE u32_cmp(self.security_state.entity_index,
                 other.security_state.entity_index)

\* Ord::cmp of Account; Unsecured is the only variant of the security state
cmp(self, other) ==
    u32_cmp(self.security_state.entity_index, other.security_state.entity_index)

partial_cmp(self, other) == Some(cmp(self, other))

\* the accounts an account is compared with: every field varies
OtherAccounts ==
    {Account_deserialize(a.network_id, a, d, ap, f, o, i) :
        a \in AccountAddresses, d \in DisplayNames, ap \in AppearanceIDs,
        f \in EntityFlagSets,
        o \in {OnLedgerSettings_default,
               OnLedgerSettings_new(with_rule_and_lists("DenyAll", <<a1A>>, <<>>))},
        i \in 0..MaxEntityIndex}

AccountFrame ==
    UNCHANGED <<instance, bound, lookups, addr, call, key, hd, codec, cell>>

AccountHeld ==
    account.tag = "Some"

\* the account after an operation; what it was created with and the value
\* last written to each register stay on record
After(acct) ==
    Some([value |-> acct, created |-> account.value.created,
          written |-> account.value.written])

\* the account after a write to a register
AfterWrite(acct, written) ==
    Some([value |-> acct, created |-> account.value.created,
          written |-> written])

Deserialize ==
    /\ account.tag = "None"
    /\ \E address \in AccountAddresses, entity_index \in 0..MaxEntityIndex :
        account' = Some([value |-> Account_deserialize(
                                      address.network_id, address, "Test", 0, {},
                                      OnLedgerSettings_default, entity_index),
                         created |-> [network_id |-> address.network_id,
                                      address |-> address],
                         written |-> [display_name |-> "Test",
                                      appearance_id |-> 0,
                                      flags |-> {},
                                      on_ledger_settings |->
                                          OnLedgerSettings_default]])
    /\ ordering' = None
    /\ AccountFrame

SetDisplayName ==
    /\ AccountHeld
    /\ \E new \in DisplayNames :
        account' = AfterWrite(set_display_name(account.value.value, new),
                              [account.value.written EXCEPT !.display_name = new])
    /\ ordering' = None
    /\ AccountFrame

SetFlags ==
    /\ AccountHeld
    /\ \E new \in EntityFlagSets :
        account' = AfterWrite(set_flags(account.value.value, new),
                              [account.value.written EXCEPT !.flags = new])
    /\ ordering' = None
    /\ AccountFrame

SetAppearanceId ==
    /\ AccountHeld
    /\ \E new \in AppearanceIDs :
        account' = AfterWrite(set_appearance_id(account.value.value, new),
                              [account.value.written EXCEPT !.appearance_id = new])
    /\ ordering' = None
    /\ AccountFrame

SetOnLedgerSettings ==
    /\ AccountHeld
    /\ \E new \in NewOnLedgerSettings :
        account' = AfterWrite(set_on_ledger_settings(account.value.value, new),
                              [account.value.written EXCEPT !.on_ledger_settings = new])
    /\ ordering' = None
    /\ AccountFrame

UpdateOnLedgerSettings ==
    /\ AccountHeld
    /\ \E update \in Updates :
        account' = AfterWrite(
            update_on_ledger_settings(account.value.value, update),
            [account.value.written EXCEPT
                !.on_ledger_settings.third_party_deposits.deposit_rule =
                    update.rule])
    /\ ordering' = None
    /\ AccountFrame

\* account.network_id = network_id, an assignment to the public field
AssignNetworkId ==
    /\ AccountHeld
    /\ \E network_id \in PathNetworkIDs :
        account' = After([account.value.value EXCEPT !.network_id = network_id])
    /\ ordering' = None
    /\ AccountFrame

\* account.address = address, an assignment to the public field
AssignAddress ==
    /\ AccountHeld
    /\ \E address \in AccountAddresses :
        account' = After([account.value.value EXCEPT !.address = address])
    /\ ordering' = None
    /\ AccountFrame

Cmp ==
    /\ AccountHeld
    /\ \E other \in OtherAccounts :
        ordering' = Some([other_index |-> other.security_state.entity_index,
                          other_is_self |-> (other = account.value.value),
                          result |-> cmp(account.value.value, other),
                          partial |-> partial_cmp(account.value.value, other)])
    /\ UNCHANGED account
    /\ AccountFrame

NextAccount ==
    \/ Deserialize
    \/ SetDisplayName
    \/ SetFlags
    \/ SetAppearanceId
    \/ SetOnLedgerSettings
    \/ UpdateOnLedgerSettings
    \/ AssignNetworkId
    \/ AssignAddress
    \/ Cmp


(***************************************************************************)
(* The RefCell of the on-ledger settings of one account, and the calls      *)
(* that borrow it.  update_on_ledger_settings holds the mutable borrow       *)
(* while its closure runs; the closure writes through the reference it is    *)
(* given and may call back into the account.  An abort ends the run.         *)
(***************************************************************************)
RefCell_new(value) == [value |-> value, writers |-> 0]

\* RefCell::borrow: aborts while the content is mutably borrowed
borrow(c) == IF c.writers > 0 THEN Panic ELSE Return(c.value)

borrow_mut_Unchecked(c) == Return([c EXCEPT !.writers = @ + 1])

\* RefCell::borrow_mut: aborts while the content is borrowed
borrow_mut(c) ==
    IF c.writers > 0 THEN Panic ELSE Return([c EXCEPT !.writers = @ + 1])

\* the RefMut goes out of scope
drop(c) == [c EXCEPT !.writers = @ - 1]

\* the closures given to update_on_ledger_settings: the writes they make
Closures == UNION {[1..n -> Updates] : n \in 1..MaxClosureWrites}

\* the settings given to set_on_ledger_settings
CellSettings ==
    {OnLedgerSettings_default,
     OnLedgerSettings_new(with_rule_and_lists("DenyAll", <<a1A>>, <<dRes>>))}

InClosure == cell.closure.tag = "Some"

\* the record of a call: whether it was made from inside the closure and
\* how many mutable borrows were held when it was made
Called(op, result) ==
    Some([op |-> op, nested |-> InClosure, held |-> cell.refcell.writers,
          result |-> result])

CellFrame ==
    UNCHANGED <<instance, bound, lookups, addr, call, key, hd, codec, account, ordering>>

GetOnLedgerSettings ==
    /\ ~cell.aborted
    /\ LET r == borrow(cell.refcell)
       IN  cell' = [cell EXCEPT !.last = Called("get_on_ledger_settings", r),
                                !.aborted = (r = Panic)]
    /\ CellFrame

SetOnLedgerSettingsCell ==
    /\ ~cell.aborted
    /\ \E new \in CellSettings :
        LET r == borrow_mut(cell.refcell)
        IN  IF r = Panic
            THEN cell' = [cell EXCEPT
                            !.last = Called("set_on_ledger_settings", Panic),
                            !.aborted = TRUE]
            ELSE cell' = [cell EXCEPT
                            !.refcell = drop([r.value EXCEPT !.value = new]),
                            !.last = Called("set_on_ledger_settings",
                                            Return("unit"))]
    /\ CellFrame

\* update_on_ledger_settings up to the call of the closure
UpdateBegin ==
    /\ ~cell.aborted
    /\ \E update \in Closures :
        LET r == borrow_mut(cell.refcell)
        IN  IF r = Panic
            THEN cell' = [cell EXCEPT
                            !.last = Called("update_on_ledger_settings", Panic),
                            !.aborted = TRUE]
            ELSE cell' = [cell EXCEPT
                            !.refcell = r.value,
                            !.closure = Some([todo |-> update, done |-> 0]),
                            !.last = Called("update_on_ledger_settings",
                                            Return("closure"))]
    /\ CellFrame

\* the closure makes its next write through the mutable reference
ClosureWrite ==
    /\ ~cell.aborted
    /\ InClosure
    /\ cell.closure.value.todo # <<>>
    /\ cell' = [cell EXCEPT
                  !.refcell.value = apply_update(Head(cell.closure.value.todo), @),
                  !.closure = Some([todo |-> Tail(cell.closure.value.todo),
                                    done |-> cell.closure.value.done + 1])]
    /\ CellFrame

\* the closure returns and update_on_ledger_settings drops the borrow
UpdateEnd ==
    /\ ~cell.aborted
    /\ InClosure
    /\ cell.closure.value.todo = <<>>
    /\ cell' = [cell EXCEPT !.refcell = drop(@), !.closure = None]
    /\ CellFrame

NextCell ==
    \/ GetOnLedgerSettings
    \/ SetOnLedgerSettingsCell
    \/ UpdateBegin
    \/ ClosureWrite
    \/ UpdateEnd


InitRegistry == lookups = [c \in 1..NumCallers |-> None]
InitEntity == addr = None /\ call = None
InitKeys == key = None

InitHD == hd = None

InitCodec == codec = [op |-> "none"]

InitAccount == account = None /\ ordering = None

InitCell ==
    cell = [refcell |-> RefCell_new(OnLedgerSettings_default),
            closure |-> None, last |-> None, aborted |-> FALSE]

Init == InitBinding /\ InitRegistry /\ InitEntity /\ InitKeys /\ InitHD /\ InitCodec /\ InitAccount /\ InitCell

SpecBinding ==
    /\ Init
    /\ [][NextBinding]_vars

SpecRegistry ==
    /\ Init
    /\ [][NextRegistry]_vars

SpecEntity ==
    /\ Init
    /\ [][NextEntity]_vars

SpecKeys ==
    /\ Init
    /\ [][NextKeys]_vars

SpecHD ==
    /\ Init
    /\ [][NextHD]_vars

SpecCodec ==
    /\ Init
    /\ [][NextCodec]_vars

SpecAccount ==
    /\ Init
    /\ [][NextAccount]_vars

SpecCell ==
    /\ Init
    /\ [][NextCell]_vars

(***************************************************************************)
(* Claims about the binding.                                               *)
(***************************************************************************)
BoundNew == bound.tag = "Some" /\ bound.value.op = "new"
BoundPath == bound.value.raw.public_key.derivation_path

\* the raw path is a CAP26 path of the entity-path variant the binding targets
BoundPathOfTarget ==
    BoundPath.tag = "CAP26" /\ BoundPath.value.tag = bound.value.E

\* C1: a binding of a raw instance whose path is a BIP44-like path or a CAP26
\* path of another entity-path variant than the target returns
\* Err(WrongEntityKindOfInFactorInstancesPath) and produces no typed instance.
C1_WrongEntityKind ==
    (BoundNew /\ ~BoundPathOfTarget) =>
        /\ bound.value.result = Err("WrongEntityKindOfInFactorInstancesPath")
        /\ instance = None

C1_Witness ==
    /\ BoundNew
    /\ bound.value.E = "IdentityPath"
    /\ BoundPath.tag = "BIP44Like"
    /\ bound.value.result = Err("WrongEntityKindOfInFactorInstancesPath")

\* C2: a binding of a raw instance whose path is a CAP26 path of the target
\* variant with a key kind other than TransactionSigning returns
\* Err(WrongKeyKindOfTransactionSigningFactorInstance).
C2_WrongKeyKind ==
    (BoundNew /\ BoundPathOfTarget
        /\ BoundPath.value.value.key_kind
            \in {"AuthenticationSigning", "MessageEncryption"}) =>
        bound.value.result = Err("WrongKeyKindOfTransactionSigningFactorInstance")

C2_Witness ==
    /\ BoundNew
    /\ bound.value.E = "AccountPath"
    /\ BoundPathOfTarget
    /\ BoundPath.value.value.key_kind = "MessageEncryption"
    /\ bound.value.result = Err("WrongKeyKindOfTransactionSigningFactorInstance")

\* C3: every typed instance a caller holds, after any sequence of public
\* operations (assignment to its public fields included), has a path of the
\* entity kind of its type and of key kind TransactionSigning.
C3_TypedInstanceAlwaysValid ==
    instance.tag = "Some" =>
        /\ instance.value.path.tag = instance.value.E
        /\ instance.value.path.value.key_kind = "TransactionSigning"

(***************************************************************************)
(* Claims about the network registry.                                      *)
(***************************************************************************)
\* the display description each registered network is declared with
DeclaredDisplay(id) ==
    CASE id = "Mainnet" -> "Mainnet"
      [] id = "Stokenet" -> "Stokenet"
      [] id = "Nebunet" -> "Betanet"
      [] id = "Kisharnet" -> "RCnet (Test Network)"
      [] id = "Ansharnet" -> "RCnet-V2 (Test Network)"
      [] id = "Zabanet" -> "RCnet-V3 (Test Network)"
      [] id = "Hammunet" -> "Hammunet (Test Network)"
      [] id = "Enkinet" -> "Enkinet (Test Network)"
      [] id = "Nergalnet" -> "Nergalnet (Test Network)"
      [] id = "Mardunet" -> "Mardunet (Test Network)"

ById(c) == lookups[c].tag = "Some" /\ lookups[c].value.op = "lookup_by_id"
ByName(c) == lookups[c].tag = "Some" /\ lookups[c].value.op = "lookup_by_name"

\* C4 as claimed: lookup_by_id(id) of every id but Simulator returns
\* Ok(network) with network.id = id and the network's logical name and
\* declared display description (Mainnet: "mainnet", "Mainnet"); of Simulator
\* it returns Err(UnknownNetworkForID(discriminant of the id)).
C4_Original_AllButSimulatorRegistered ==
    \A c \in Callers :
        ById(c) =>
            LET id == lookups[c].value.id
                r == lookups[c].value.result
            IN  /\ id # "Simulator" =>
                    /\ r.tag = "Ok"
                    /\ r.value.id = id
                    /\ r.value.logical_name = network_definition_logical_name(id)
                    /\ r.value.display_description = DeclaredDisplay(id)
                /\ id = "Mainnet" =>
                    /\ r.tag = "Ok"
                    /\ r.value.logical_name = "mainnet"
                    /\ r.value.display_description = "Mainnet"
                /\ id = "Simulator" =>
                    r = Err([kind |-> "UnknownNetworkForID", payload |-> 242])

\* the ids the lookup map registers: every id but Adapanet and Simulator
Registered == NetworkIDs \ {"Adapanet", "Simulator"}

\* C4 (amended): lookup_by_id(id) of a registered id (every id but Adapanet
\* and Simulator) returns Ok(network) with network.id = id and the network's
\* logical name and declared display description (Mainnet: "mainnet",
\* "Mainnet"); of an unregistered id (Adapanet, Simulator) it returns
\* Err(UnknownNetworkForID(d)), d the discriminant of the id.
C4_LookupById ==
    \A c \in Callers :
        ById(c) =>
            LET id == lookups[c].value.id
                r == lookups[c].value.result
            IN  /\ id \in Registered =>
                    /\ r.tag = "Ok"
                    /\ r.value.id = id
                    /\ r.value.logical_name = network_definition_logical_name(id)
                    /\ r.value.display_description = DeclaredDisplay(id)
                /\ id = "Mainnet" =>
                    /\ r.tag = "Ok"
                    /\ r.value.logical_name = "mainnet"
                    /\ r.value.display_description = "Mainnet"
                    /\ discriminant(r.value.id) = 1
                /\ id = "Simulator" =>
                    r = Err([kind |-> "UnknownNetworkForID", payload |-> 242])
                /\ id = "Adapanet" =>
                    r = Err([kind |-> "UnknownNetworkForID", payload |-> 10])

C4_Witness ==
    /\ ById(1) /\ lookups[1].value.id = "Adapanet"
    /\ lookups[1].value.result.tag = "Err"
    /\ ById(2) /\ lookups[2].value.id = "Mainnet"
    /\ lookups[2].value.result.tag = "Ok"

\* C5: lookup_by_name(name) returns Ok of exactly the registered network
\* whose logical name is name (the value lookup_by_id returns for its id), and
\* Err(UnknownNetworkWithName(name)), carrying name unchanged, when no
\* registered network has that logical name.
C5_LookupByName ==
    \A c \in Callers :
        ByName(c) =>
            LET name == lookups[c].value.name
                r == lookups[c].value.result
                ids == {id \in Registered :
                            network_definition_logical_name(id) = name}
            IN  /\ ids # {} =>
                    /\ r.tag = "Ok"
                    /\ r.value.logical_name = name
                    /\ \E id \in ids : r = lookup_by_id(id) /\ r.value.id = id
                /\ ids = {} =>
                    r = Err([kind |-> "UnknownNetworkWithName", payload |-> name])

C5_Witness ==
    /\ ByName(1) /\ lookups[1].value.name = "x"
    /\ lookups[1].value.result.tag = "Err"
    /\ ByName(2) /\ lookups[2].value.name = "stokenet"
    /\ lookups[2].value.result.tag = "Ok"

(***************************************************************************)
(* Claims about entity addresses, account creation and the storage.        *)
(***************************************************************************)
Decoded == call.tag = "Some" /\ call.value.op = "try_from_bech32"

\* the ways of changing an address that leave a string no decoder accepts
Malformed == {"checksum", "hrp_unknown", "net_unknown", "byte_unknown"}
\* the ways that leave the well-formed address of some entity kind
WellFormed == {"none", "other_kind", "resource"}

\* C6: try_from_bech32(s) of an address type T returns
\* Err(FailedToDecodeAddressFromBech32) when s cannot be decoded, also when T
\* is not the type s was made for; Err(MismatchingEntityTypeWhileDecodingAddress)
\* when s decodes to another entity type than T's; and on success a value
\* that carries s unchanged and the decoded network id.
C6_TryFromBech32Errors ==
    Decoded =>
        LET T == call.value.T
            s == call.value.s
            r == call.value.result
        IN  /\ call.value.tamper \in Malformed =>
                r = Err("FailedToDecodeAddressFromBech32")
            /\ (call.value.tamper \in WellFormed /\ s.prefix # hrp(entity_type(T))) =>
                r = Err("MismatchingEntityTypeWhileDecodingAddress")
            /\ (call.value.tamper \in WellFormed /\ s.prefix = hrp(entity_type(T))) =>
                r.tag = "Ok"
            /\ r.tag = "Ok" =>
                /\ r.value.address = s
                /\ r.value.network_id = addr.value.network_id

\* an undecodable string handed to a type it was not made for: the decoding
\* failure is what is reported
C6_Witness ==
    /\ Decoded
    /\ call.value.tamper = "checksum"
    /\ call.value.T = "IdentityAddress"
    /\ addr.value.T = "AccountAddress"
    /\ call.value.result = Err("FailedToDecodeAddressFromBech32")

\* C7: decoding, as the same address type, the address from_public_key made
\* of a public key, a network id and an entity kind (Account, Identity)
\* succeeds and recovers the network id; the entity kind recovered is that
\* kind, so decoding it as any other address type is a mismatch.
C7_AddressRoundTrip ==
    (Decoded /\ call.value.tamper = "none") =>
        IF call.value.T = addr.value.T
        THEN call.value.result =
                Ok([address |-> addr.value.value.address,
                    network_id |-> addr.value.network_id])
        ELSE call.value.result = Err("MismatchingEntityTypeWhileDecodingAddress")

C7_Witness ==
    /\ Decoded
    /\ call.value.tamper = "none"
    /\ call.value.T = "IdentityAddress"
    /\ addr.value.T = "IdentityAddress"
    /\ addr.value.network_id = "Simulator"
    /\ addr.value.public_key.curve = "Secp256k1"
    /\ call.value.result.tag = "Ok"
    /\ call.value.result.value.network_id = "Simulator"

\* C8: for the public key and network id of the address produced, the
\* Account address and the Identity address from_public_key derives differ
\* (and the address produced is one of the two).
C8_AccountIdentityDistinct ==
    addr.tag = "Some" =>
        LET a == from_public_key("AccountAddress", addr.value.public_key,
                                 addr.value.network_id)
            i == from_public_key("IdentityAddress", addr.value.public_key,
                                 addr.value.network_id)
        IN  /\ a.tag = "Return"
            /\ i.tag = "Return"
            /\ a.value.address # i.value.address
            /\ addr.value.value = (IF addr.value.T = "AccountAddress"
                                   THEN a.value ELSE i.value)

C8_Witness ==
    /\ addr.tag = "Some"
    /\ addr.value.T = "IdentityAddress"
    /\ call.tag = "Some"
    /\ call.value.op = "from_public_key"
    /\ call.value.result.tag = "Return"

\* C9: no public operation aborts the process, except try_from_bech32 on the
\* documented HRP/entity-kind desync: from_public_key of every address type,
\* Account::with_values, load_data and save_data return a value.
C9_NoAbortButTheDocumented ==
    (call.tag = "Some" /\ call.value.result.tag = "Panic") =>
        call.value.op = "try_from_bech32"

(***************************************************************************)
(* Claims about Secp256k1PublicKey.                                        *)
(***************************************************************************)
FromBytesCalled == key.tag = "Some" /\ key.value.op = "from_bytes"

\* the bytes are the 33-byte compressed encoding of a point on the curve
ValidKeyBytes(bytes) == bytes.len = 33 /\ bytes.tag \in {2, 3} /\ bytes.x % 2 = 0

Ed25519FromBytesCalled ==
    key.tag = "Some" /\ key.value.op = "ed25519_from_bytes"
Ed25519FromStrCalled ==
    key.tag = "Some" /\ key.value.op = "ed25519_from_str"
\* the string is hex text that decodes to exactly 32 bytes
Hex32(s) == s.valid /\ s.bytes.len = Ed25519PrivateKeyLength

\* C11: Ed25519PrivateKey::from_bytes(b) succeeds only when b has exactly 32
\* bytes, and otherwise returns InvalidEd25519PrivateKeyFromBytes carrying b
\* unchanged; from_str(s) returns InvalidEd25519PrivateKeyFromString carrying
\* s unchanged whenever s is not hex or does not decode to exactly 32 bytes,
\* so a too-short hex string is a FromString error and never a FromBytes one.
C11_Ed25519Decoding ==
    /\ Ed25519FromBytesCalled =>
        LET b == key.value.bytes
            r == key.value.result
        IN  /\ r.tag = "Ok" => b.len = Ed25519PrivateKeyLength
            /\ r.tag # "Ok" =>
                /\ r.tag = "Err"
                /\ r.error = InvalidEd25519PrivateKeyFromBytes(b)
    /\ Ed25519FromStrCalled =>
        LET s == key.value.hex
            r == key.value.result
        IN  ~Hex32(s) =>
                /\ r.tag = "Err"
                /\ r.error = InvalidEd25519PrivateKeyFromString(s)

\* a hex string that is too short ("dead") has been rejected by from_str
C11_Witness ==
    /\ Ed25519FromStrCalled
    /\ key.value.hex.valid
    /\ key.value.hex.bytes.len = 2
    /\ key.value.result.tag = "Err"

(***************************************************************************)
(* Claims about HierarchicalDeterministicPrivateKey.                        *)
(***************************************************************************)
\* C12: the curve of an HD private key is fixed by the kind of its derivation
\* path and is not caller-selectable: every HierarchicalDeterministicPrivateKey
\* obtainable through the public API holds an Ed25519 key when its path is a
\* CAP26 path and a secp256k1 key when its path is a BIP44-like path.
C12_CurveFixedByPathKind ==
    hd.tag = "Some" =>
        LET k == hd.value.key
        IN  /\ k.derivation_path.tag = "CAP26" => k.private_key.curve = "Ed25519"
            /\ k.derivation_path.tag = "BIP44Like" =>
                k.private_key.curve = "Secp256k1"

(***************************************************************************)
(* Claims about the CAP26 constants and the path codec.                     *)
(***************************************************************************)
\* the canonical shape of a CAP26 path string apart from its entity-kind and
\* key-kind segments
CAP26Shaped(s) ==
    /\ s.head = "m"
    /\ Len(s.components) = 6
    /\ \A i \in 1..6 : s.components[i].hardened
    /\ s.components[1].value = 44
    /\ s.components[2].value = 1022
    /\ NetworkID_from_repr(s.components[3].value).tag = "Some"
    /\ is_index(s.components[6].value)

C13_WitnessParse ==
    /\ codec.op = "from_str"
    /\ codec.result.tag = "Ok"
    /\ codec.target = "BIP44Like"

\* C14: parsing a CAP26 path string into a target entity-path variant fails
\* with WrongEntityKind if the entity-kind segment differs from the numeric
\* entity kind of the target variant (525 for AccountPath, 618 for
\* IdentityPath), fails with UnknownKeyKind if (the entity kind being the
\* target's) the key-kind segment is not one of 1460, 1678, 1391, and accepts
\* any hardened u32 index otherwise.
C14_CAP26Parse ==
    (/\ codec.op = "from_str"
     /\ codec.target # "BIP44Like"
     /\ CAP26Shaped(codec.text)) =>
        LET c == codec.text.components
            expected == IF codec.target = "AccountPath" THEN 525 ELSE 618
        IN  /\ c[4].value # expected =>
                codec.result = Err("WrongEntityKind")
            /\ (c[4].value = expected /\ c[5].value \notin {1460, 1678, 1391}) =>
                codec.result = Err("UnknownKeyKind")
            /\ (c[4].value = expected /\ c[5].value \in {1460, 1678, 1391}) =>
                /\ codec.result.tag = "Ok"
                /\ codec.result.value.tag = codec.target
                /\ codec.result.value.value.index = c[6].value

\* an identity path string has been parsed into AccountPath and rejected
C14_Witness ==
    /\ codec.op = "from_str"
    /\ codec.target = "AccountPath"
    /\ CAP26Shaped(codec.text)
    /\ codec.text.components[4].value = 618
    /\ codec.result = Err("WrongEntityKind")

\* a string with an unknown key kind has been rejected
C14_WitnessKeyKind ==
    /\ codec.op = "from_str"
    /\ codec.target = "IdentityPath"
    /\ CAP26Shaped(codec.text)
    /\ codec.text.components[5].value = 7
    /\ codec.result = Err("UnknownKeyKind")

\* C15: the protocol constants are exactly CAP26EntityKind {Account=525,
\* Identity=618} and CAP26KeyKind {TransactionSigning=1460,
\* AuthenticationSigning=1678, MessageEncryption=1391}; each key-kind value
\* equals the sum of the ASCII codes of its documented name, and converting
\* any other u32 to an entity kind or key kind yields no value.
C15_ProtocolConstants ==
    /\ CAP26EntityKinds = {"Account", "Identity"}
    /\ CAP26EntityKind_repr("Account") = 525
    /\ CAP26EntityKind_repr("Identity") = 618
    /\ CAP26KeyKinds =
        {"TransactionSigning", "AuthenticationSigning", "MessageEncryption"}
    /\ CAP26KeyKind_repr("TransactionSigning") = 1460
    /\ CAP26KeyKind_repr("AuthenticationSigning") = 1678
    /\ CAP26KeyKind_repr("MessageEncryption") = 1391
    /\ \A kind \in CAP26KeyKinds :
        CAP26KeyKind_repr(kind) = ascii_sum(documented_name(kind))
    /\ codec.op = "CAP26EntityKind::from_repr" =>
        /\ codec.repr \notin {525, 618} => codec.result = None
        /\ codec.repr = 525 => codec.result = Some("Account")
        /\ codec.repr = 618 => codec.result = Some("Identity")
    /\ codec.op = "CAP26KeyKind::from_repr" =>
        /\ codec.repr \notin {1460, 1678, 1391} => codec.result = None
        /\ codec.repr = 1460 => codec.result = Some("TransactionSigning")
        /\ codec.repr = 1678 => codec.result = Some("AuthenticationSigning")
        /\ codec.repr = 1391 => codec.result = Some("MessageEncryption")

\* a u32 that is no key kind (an entity kind's value) has been converted
C15_Witness ==
    /\ codec.op = "CAP26KeyKind::from_repr"
    /\ codec.repr = 525
    /\ codec.result = None

(***************************************************************************)
(* Claims about Account and ThirdPartyDeposits.                             *)
(***************************************************************************)
Acct == account.value.value
Compared == ordering.tag = "Some"

\* C16: the ordering between two accounts whose security states are both
\* Unsecured compares entity_index only: a.cmp(b) is the comparison of
\* a.entity_index with b.entity_index whatever the address, network id,
\* display name, appearance id, flags and on-ledger settings of the two are,
\* and partial_cmp always returns Some of that result.
C16_OrderByEntityIndexOnly ==
    Compared =>
        /\ ordering.value.result =
            u32_cmp(Acct.security_state.entity_index, ordering.value.other_index)
        /\ ordering.value.partial = Some(ordering.value.result)

\* an account has been compared with another account of the same entity
\* index that differs from it in other fields
C16_Witness ==
    /\ Compared
    /\ ordering.value.other_index = Acct.security_state.entity_index
    /\ ~ordering.value.other_is_self
    /\ ordering.value.result = "Equal"

\* C17: an account's network_id and address are immutable after creation: in
\* every state reached by any sequence of set_display_name, set_flags,
\* set_appearance_id, set_on_ledger_settings and update_on_ledger_settings
\* calls, and by any other public access to the account, network_id and
\* address equal the values the account was created with.
C17_NetworkIdAndAddressImmutable ==
    AccountHeld =>
        /\ Acct.network_id = account.value.created.network_id
        /\ Acct.address = account.value.created.address

\* C18: an account's entity_index never decreases once assigned: every
\* operation on an account leaves the entity_index of its Unsecured security
\* state greater than or equal to what it was.
C18_EntityIndexNeverDecreases ==
    [][AccountHeld =>
        /\ account'.tag = "Some"
        /\ account'.value.value.security_state.entity_index
            >= Acct.security_state.entity_index]_vars

\* an account created with the largest entity index has had its flags and
\* its on-ledger settings written and still has that index
C18_Witness ==
    /\ AccountHeld
    /\ Acct.security_state.entity_index = MaxEntityIndex
    /\ Acct.flags = {"DeletedByUser"}
    /\ Acct.on_ledger_settings # OnLedgerSettings_default

SameLookup(c, d) ==
    /\ lookups[c].tag = "Some"
    /\ lookups[d].tag = "Some"
    /\ lookups[c].value.op = lookups[d].value.op
    /\ IF lookups[c].value.op = "lookup_by_id"
       THEN lookups[c].value.id = lookups[d].value.id
       ELSE lookups[c].value.name = lookups[d].value.name

\* C20: the network registry is immutable, read-only state with no shared
\* mutable data: for every key, lookup_by_id and lookup_by_name return the
\* same result in every state, under any number and any interleaving of
\* lookups from concurrent callers, and no lookup changes what a later lookup
\* returns.
C20_RegistryReadOnly ==
    \A c, d \in Callers :
        SameLookup(c, d) => lookups[c].value.result = lookups[d].value.result

\* two callers hold the result of looking up the same registered name
C20_Witness ==
    /\ SameLookup(1, 2)
    /\ lookups[1].value.op = "lookup_by_name"
    /\ lookups[1].value.name = "stokenet"
    /\ lookups[2].value.result.tag = "Ok"

(***************************************************************************)
(* Claims about the PrivateKey tagged union.                                *)
(***************************************************************************)
DownCast == key.tag = "Some" /\ key.value.op \in {"as_ed25519", "as_secp256k1"}

\* C21: the curve down-cast accessors of PrivateKey are total and never
\* panic: as_ed25519 returns the wrapped key for an Ed25519 variant and an
\* empty result for a Secp256k1 variant, as_secp256k1 the wrapped key for a
\* Secp256k1 variant and an empty result for an Ed25519 variant, and
\* converting a curve-specific key into the union and down-casting to the
\* same curve returns a key equal to the original.
C21_DownCastTotal ==
    DownCast =>
        LET same == (key.value.op = "as_ed25519")
                        = (key.value.inner.type = "Ed25519PrivateKey")
        IN  /\ key.value.result.tag \in {"Some", "None"}
            /\ same => key.value.result = Some(key.value.inner)
            /\ ~same => key.value.result = None

\* a Secp256k1 key in the union has been down-cast to Ed25519, with an empty
\* result
C21_Witness ==
    /\ DownCast
    /\ key.value.op = "as_ed25519"
    /\ key.value.inner.type = "Secp256k1PrivateKey"
    /\ key.value.result = None

(***************************************************************************)
(* Further claims about the binding.                                        *)
(***************************************************************************)
\* C22: a successful binding preserves the raw instance's data: when
\* HDFactorInstanceAccountCreation::new or HDFactorInstanceIdentityCreation::new
\* returns Ok(v), v.factor_source_id, v's public key and v.path equal the
\* factor source id, the public key and the down-cast derivation path of the
\* raw instance given, and the path's key kind is TransactionSigning.
C22_BindingPreservesData ==
    (BoundNew /\ bound.value.result.tag = "Ok") =>
        LET v == bound.value.result.value
            raw == bound.value.raw
        IN  /\ v.factor_source_id = raw.factor_source_id
            /\ v.public_key = raw.public_key.public_key
            /\ BoundPath = [tag |-> "CAP26", value |-> v.path]
            /\ hd_public_key_of(v) = raw.public_key
            /\ v.path.tag = bound.value.E
            /\ v.path.value.key_kind = "TransactionSigning"

\* an identity path of the second factor source with a secp256k1 key has
\* been bound
C22_Witness ==
    /\ BoundNew
    /\ bound.value.result.tag = "Ok"
    /\ bound.value.E = "IdentityPath"
    /\ bound.value.raw.factor_source_id = "fsB"
    /\ bound.value.raw.public_key.public_key.curve = "Secp256k1"

\* the key kind of the raw path is not TransactionSigning (a BIP44-like path
\* has no key kind at all)
BoundKeyKindWrong ==
    BoundPath.tag = "CAP26" => BoundPath.value.value.key_kind # "TransactionSigning"

\* C26: the binding checks the entity kind before the key kind: for a raw
\* instance whose path is both of the wrong entity-path variant (or
\* BIP44-like) and of a key kind other than TransactionSigning it returns
\* WrongEntityKindOfInFactorInstancesPath, never
\* WrongKeyKindOfTransactionSigningFactorInstance; WrongKeyKind is returned
\* only when the entity-path variant matches.
C26_EntityKindBeforeKeyKind ==
    BoundNew =>
        /\ (~BoundPathOfTarget /\ BoundKeyKindWrong) =>
            bound.value.result = Err("WrongEntityKindOfInFactorInstancesPath")
        /\ bound.value.result
                = Err("WrongKeyKindOfTransactionSigningFactorInstance") =>
            BoundPathOfTarget

\* an identity path of key kind AuthenticationSigning has been bound as an
\* account path and rejected for its entity kind
C26_Witness ==
    /\ BoundNew
    /\ bound.value.E = "AccountPath"
    /\ BoundPath.tag = "CAP26"
    /\ BoundPath.value.tag = "IdentityPath"
    /\ BoundPath.value.value.key_kind = "AuthenticationSigning"
    /\ bound.value.result = Err("WrongEntityKindOfInFactorInstancesPath")

(***************************************************************************)
(* Further claims about the entity addresses.                               *)
(***************************************************************************)
\* the string decoded, to the entity type expected, with an HRP that does
\* not start with that entity type's HRP
HRPDesync ==
    /\ Decoded
    /\ call.value.decoded.tag = "Ok"
    /\ call.value.decoded.value.entity_type = entity_type(call.value.T)
    /\ ~starts_with(call.value.decoded.value.hrp, hrp(entity_type(call.value.T)))

\* C23: in try_from_bech32, when decoding succeeds and the decoded entity
\* type equals the expected one but the decoded HRP does not start with that
\* entity type's HRP, the operation aborts; it never returns
\* MismatchingHRPWhileDecodingAddress or any other error value, and never
\* returns an address.
C23_HRPDesyncAborts ==
    /\ HRPDesync => call.value.result = Panic
    /\ Decoded => call.value.result # Err("MismatchingHRPWhileDecodingAddress")

\* an address with the payload of an identity under the HRP of an account
\* has been decoded as an IdentityAddress
C23_Witness ==
    /\ HRPDesync
    /\ call.value.T = "IdentityAddress"
    /\ call.value.s.prefix = "account"

(***************************************************************************)
(* Further claims about the account.                                        *)
(***************************************************************************)
\* the value last written to each register of the account held, the initial
\* value of a register never written
Written == account.value.written

\* C24: the mutable fields of an account are independent last-writer-wins
\* registers: after any sequence of set_display_name, set_flags,
\* set_appearance_id, set_on_ledger_settings and update_on_ledger_settings
\* calls each getter returns the value of the most recent write to its own
\* field (the initial value if never written), whatever was written to the
\* other three; update_on_ledger_settings that changes the deposit rule
\* writes the rule and leaves asset_exceptions and allowed_depositors as the
\* most recent write left them.
C24_IndependentRegisters ==
    AccountHeld =>
        /\ get_display_name(Acct) = Written.display_name
        /\ get_flags(Acct) = Written.flags
        /\ get_appearance_id(Acct) = Written.appearance_id
        /\ get_on_ledger_settings(Acct) = Written.on_ledger_settings

\* every register holds a value written after construction, the settings
\* with both lists non-empty and a deposit rule other than the default
C24_Witness ==
    /\ AccountHeld
    /\ get_display_name(Acct) # "Test"
    /\ get_flags(Acct) # {}
    /\ get_appearance_id(Acct) # 0
    /\ get_on_ledger_settings(Acct).third_party_deposits.asset_exceptions # <<>>
    /\ get_on_ledger_settings(Acct).third_party_deposits.allowed_depositors # <<>>
    /\ get_on_ledger_settings(Acct).third_party_deposits.deposit_rule = "DenyAll"

(***************************************************************************)
(* Further claims about HierarchicalDeterministicPrivateKey.                *)
(***************************************************************************)
\* the step is a call of public_key on the HD private key held
PublicKeyReturned ==
    hd.tag = "Some" /\ hd'.tag = "Some" /\ hd'.value.public.tag = "Some"

\* C25: HierarchicalDeterministicPrivateKey::public_key returns an HD public
\* key whose derivation path is the path of the private key and whose curve
\* is the curve of the private key; the call leaves the private key and its
\* path unchanged, and a repeated call returns what the call before returned.
C25_PublicKeyOfHDPrivateKey ==
    [][PublicKeyReturned =>
        LET returned == hd'.value.public.value
        IN  /\ returned.derivation_path = hd.value.key.derivation_path
            /\ returned.public_key.curve = hd.value.key.private_key.curve
            /\ hd'.value.key = hd.value.key
            /\ hd.value.public.tag = "Some" => hd.value.public.value = returned
      ]_vars

\* public_key has returned for a secp256k1 key on a CAP26 path
C25_Witness ==
    /\ hd.tag = "Some"
    /\ hd.value.public.tag = "Some"
    /\ hd.value.key.private_key.curve = "Secp256k1"
    /\ hd.value.key.derivation_path.tag = "CAP26"
    /\ hd.value.public.value.public_key.curve = "Secp256k1"

\* C27: the ordering of accounts agrees with their equality: a.cmp(b) is
\* Equal exactly when a == b (the derived equality over every field), so an
\* ordered set of accounts retains every pair of accounts that are not equal.
C27_OrderAgreesWithEquality ==
    Compared => (ordering.value.result = "Equal" <=> ordering.value.other_is_self)

(***************************************************************************)
(* Further claims about Secp256k1PublicKey.                                 *)
(***************************************************************************)
\* C28: every Secp256k1PublicKey obtainable through a public entry point
\* (from_hex, from_str, try_from bytes, the exported constructors, JSON
\* deserialization) holds exactly 33 bytes that encode a point of the curve,
\* so to_engine never aborts on such a value.
C28_HeldKeysAreValid ==
    key.tag = "Some" =>
        /\ (key.value.op \in {"from_bytes", "from_hex", "secp256k1_deserialize"}
              /\ key.value.result.tag = "Ok")
            => from_sec1_bytes_ok(key.value.result.value.value)
        /\ key.value.op = "to_engine" =>
            /\ from_sec1_bytes_ok(key.value.self.value)
            /\ key.value.result # Panic

(***************************************************************************)
(* Claims about the conversions between NetworkID and hd::SimpleNetworkID.  *)
(***************************************************************************)
\* C30: the conversions between NetworkID and hd::SimpleNetworkID are
\* mutually inverse bijections over the twelve networks: converting a value
\* and converting the result back returns the value, and each conversion
\* returns the network of the same name.
C30_NetworkConversionsInverse ==
    call.tag = "Some" =>
        /\ call.value.op = "NetworkID::from" =>
            /\ call.value.result.value \in NetworkIDs
            /\ call.value.result.value = call.value.value.variant
            /\ call.value.back = call.value.value
        /\ call.value.op = "SimpleNetworkID::from" =>
            /\ call.value.result.value \in SimpleNetworkIDs
            /\ call.value.result.value.variant = call.value.value
            /\ call.value.back = call.value.value

\* the SimpleNetworkID of Stokenet has been converted and converted back
C30_Witness ==
    /\ call.tag = "Some"
    /\ call.value.op = "NetworkID::from"
    /\ call.value.value = SimpleNetworkID("Stokenet")
    /\ call.value.result = Return("Stokenet")
    /\ call.value.back = SimpleNetworkID("Stokenet")

\* Simulator has been converted to its SimpleNetworkID and converted back
C30_WitnessReverse ==
    /\ call.tag = "Some"
    /\ call.value.op = "SimpleNetworkID::from"
    /\ call.value.value = "Simulator"
    /\ call.value.back = "Simulator"

(***************************************************************************)
(* Claims about the borrows of the on-ledger settings.                      *)
(***************************************************************************)
\* C29: update_on_ledger_settings holds exclusive access to the on-ledger
\* settings for the whole duration of the update closure: while the closure
\* runs exactly one mutable borrow is held and never more than one, no call
\* made while a mutable borrow is held gets access, and a
\* get_on_ledger_settings, set_on_ledger_settings or nested
\* update_on_ledger_settings made from inside the closure aborts.
C29_ExclusiveDuringUpdate ==
    /\ cell.refcell.writers <= 1
    /\ InClosure <=> cell.refcell.writers = 1
    /\ cell.last.tag = "Some" =>
        /\ cell.last.value.held > 0 => cell.last.value.result = Panic
        /\ cell.last.value.nested => cell.last.value.result = Panic
        /\ cell.last.value.result = Panic <=> cell.aborted

\* a closure of two writes has made one of them and called
\* get_on_ledger_settings, which aborted
C29_Witness ==
    /\ InClosure
    /\ cell.closure.value.done = 1
    /\ Len(cell.closure.value.todo) = 1
    /\ cell.last.tag = "Some"
    /\ cell.last.value.op = "get_on_ledger_settings"
    /\ cell.last.value.nested
    /\ cell.last.value.result = Panic
    /\ cell.refcell.value # OnLedgerSettings_default

====
